---- MODULE Spec2Model ----
(***************************************************************************)
(* Scenario planning engine of foliofox: the calendar (local-date), the    *)
(* event and condition model, the month-stepping fold of runScenario, the  *)
(* dividend generator, the dependency analyzer, the timeline transformer,  *)
(* the client's event toggles and the page's portfolio fetch.              *)
(* The calendar is translated from lib/scenario-planning/local-date.ts,    *)
(* the dividend generator, the analyzer and the transformer from           *)
(* dividend-generator.ts, event-analyzer.ts and timeline-transformer.ts;   *)
(* the engine itself (lib/scenario-planning/index.ts) is described by      *)
(* spec.md sections 3, 4.2 and 4.3 and exercised by index.test.ts.         *)
(***************************************************************************)
EXTENDS Integers, Sequences, FiniteSets, TLC

VARIABLES
    scenario,        \* the events of the scenario, in declared order
    startDate,       \* runScenario input
    endDate,         \* runScenario input
    initialBalance,  \* runScenario input
    cursor,          \* month being processed (a LocalDate, day 1)
    running,         \* balance as of the end of the previous month
    happened,        \* names of the events fired in strictly earlier months
    balance,         \* result.balance : month-key -> number, insertion order
    cashflow,        \* result.cashflow: month-key -> {amount, events}
    pc,              \* "fetch", "construct", "loop" (months remain), "done",
                     \* "analysed", "transformed", "error"; "dates" in the
                     \* calendar model
    portfolioAssets, \* runScenario input: the non-cash holdings, or NoPortfolio
    growthRate,      \* runScenario input: annual growth of the assets, percent
    dividendYield,   \* runScenario input: annual dividend yield, percent
    assetValues,     \* asset id -> value as of the end of the previous month
    cashBalance,     \* result.cashBalance : month-key -> number
    assetBalance,    \* result.assetBalance: month-key -> (asset id -> number)
    totalBalance,    \* result.totalBalance: month-key -> number
    pending,         \* the makeRecurring calls the caller has still to make
    analysis,        \* what analyzeEventDependencies returned, or NoAnalysis
    previous,        \* inputs and result of the run compared with, or NoRun
    runs,            \* the number of runs compared so far (callAgain)
    timeline,        \* what transformToTimelineData returned, or NoTimeline
    offset,          \* months added to startDate by the addMonthsLD calls made
    fullScenario,    \* the client's events before the toggles filter them
    enabledEventNames, \* the client's state: names of the enabled events
    toggled,         \* the last handleEventToggle call, or NoToggle
    positions        \* how the page's fetchPositions call settled, or NoPositions

vars == <<scenario, startDate, endDate, initialBalance, cursor, running,
          happened, balance, cashflow, pc, portfolioAssets, growthRate,
          dividendYield, assetValues, cashBalance, assetBalance, totalBalance,
          pending, analysis, previous, runs, timeline, offset, fullScenario,
          enabledEventNames, toggled, positions>>

-----------------------------------------------------------------------------
(* Bounds of the model.                                                     *)

\* first calendar year of the modelled date domain
BaseYear == 2025
\* number of calendar years events and simulated ranges may span
NumYears == 2
\* largest number of events in a scenario of the condition model
MaxEvents == 2
\* last simulated month (of BaseYear) of the condition model
MaxEndMonth == 5

Years == BaseYear .. (BaseYear + NumYears - 1)

-----------------------------------------------------------------------------
(* Calendar: local-date.ts                                                  *)

ld(y, m, d) == [y |-> y, m |-> m, d |-> d]

\* endDate: null
NoDate == ld(0, 0, 0)

\* Number.prototype.toString for a natural number, as character codes
RECURSIVE numToString(_)
numToString(n) ==
    IF n < 10 THEN <<48 + n>>
    ELSE Append(numToString(n \div 10), 48 + (n % 10))

\* String.prototype.padStart(len, "0")
RECURSIVE padStart(_, _)
padStart(s, len) == IF Len(s) >= len THEN s ELSE padStart(<<48>> \o s, len)

\* toKeyMonth without padStart: the digits as toString gives them
toKeyMonthUnpadded(d) == numToString(d.y) \o <<45>> \o numToString(d.m)

\* toKeyMonth formatting the day where the month belongs
toKeyMonthOfDay(d) ==
    padStart(numToString(d.y), 4) \o <<45>> \o padStart(numToString(d.d), 2)

\* "YYYY-MM" as a sequence of character codes ('-' is 45)
toKeyMonth(d) ==
    padStart(numToString(d.y), 4) \o <<45>> \o padStart(numToString(d.m), 2)

startOfMonthLD(d) == ld(d.y, d.m, 1)

\* the % operator of JavaScript: the sign of the result follows the dividend
jsRem(a, b) == IF a >= 0 THEN a % b ELSE 0 - ((0 - a) % b)

\* addMonthsLD wrapping the month without carrying into the year
addMonthsLDNoCarry(d, delta) ==
    ld(d.y, ((jsRem(d.m - 1 + delta, 12) + 12) % 12) + 1, d.d)

\* addMonthsLD carrying into the year with a quotient rounded towards zero
\* where the code rounds down (Math.floor)
addMonthsLDTruncating(d, delta) ==
    LET total == d.m - 1 + delta
        newY  == d.y + (IF total >= 0 THEN total \div 12
                        ELSE 0 - ((0 - total) \div 12))
        newM  == ((jsRem(total, 12) + 12) % 12) + 1
    IN  ld(newY, newM, d.d)

addMonthsLD(d, delta) ==
    LET total == d.m - 1 + delta
        newY  == d.y + (total \div 12)
        newM  == ((jsRem(total, 12) + 12) % 12) + 1
    IN  ld(newY, newM, d.d)

compareLD(a, b) ==
    IF a.y # b.y THEN a.y - b.y
    ELSE IF a.m # b.m THEN a.m - b.m
    ELSE a.d - b.d

\* isAfterLD that also holds of equal dates
isAfterLDOrSame(a, b) == compareLD(a, b) >= 0

isAfterLD(a, b) == compareLD(a, b) > 0

\* isBeforeLD that also holds of equal dates
isBeforeLDOrSame(a, b) == compareLD(a, b) <= 0

isBeforeLD(a, b) == compareLD(a, b) < 0

\* isSameDayLD that compares month and day but not the year
isSameDayLDAnyYear(a, b) == a.m = b.m /\ a.d = b.d

isSameDayLD(a, b) == compareLD(a, b) = 0

-----------------------------------------------------------------------------
(* Event and condition model: spec.md section 3 and 4.2                     *)

Condition(tag, type, eventName, amount, date, end) ==
    [tag |-> tag, type |-> type, eventName |-> eventName, amount |-> amount,
     date |-> date, endDate |-> end]

dateIs(date) == Condition("cashflow", "date-is", "", 0, date, NoDate)

dateInRange(start, end) ==
    Condition("cashflow", "date-in-range", "", 0, start, end)

networthIsAbove(eventRef, amount) ==
    Condition("balance", "networth-is-above", eventRef, amount, NoDate, NoDate)

eventHappened(eventName) ==
    Condition("balance", "event-happened", eventName, 0, NoDate, NoDate)

incomeIsAbove(eventName, amount) ==
    Condition("balance", "income-is-above", eventName, amount, NoDate, NoDate)

\* recurrence: once(date) keeps its date in startDate; endDate NoDate is open
Recurrence(type, start, end) ==
    [type |-> type, startDate |-> start, endDate |-> end]

makeEvent(name, type, amount, recurrence, unlockedBy) ==
    [name |-> name, type |-> type, amount |-> amount,
     recurrence |-> recurrence, unlockedBy |-> unlockedBy]

makeOneOff(name, type, amount, date, unlockedBy) ==
    makeEvent(name, type, amount, Recurrence("once", date, NoDate), unlockedBy)

\* a recurring event is constructed only with endDate absent or >= startDate
validRange(start, end) == end = NoDate \/ ~isBeforeLD(end, start)

\* what a caller holds after a factory has thrown instead of returning
ConstructionError ==
    makeEvent("", "error", 0, Recurrence("error", NoDate, NoDate), <<>>)

\* makeRecurring returning an event whatever the range
makeRecurringUnchecked(name, type, amount, frequency, start, end, unlockedBy) ==
    makeEvent(name, type, amount, Recurrence(frequency, start, end), unlockedBy)

makeRecurring(name, type, amount, frequency, start, end, unlockedBy) ==
    IF validRange(start, end)
    THEN makeEvent(name, type, amount, Recurrence(frequency, start, end),
                   unlockedBy)
    ELSE ConstructionError

\* the month of `date` lies in the months from start's to end's, inclusive
inMonthRange(date, start, end) ==
    /\ ~isBeforeLD(startOfMonthLD(date), startOfMonthLD(start))
    /\ \/ end = NoDate
       \/ ~isAfterLD(startOfMonthLD(date), startOfMonthLD(end))

isEventActiveInMonth(date, event) ==
    LET r == event.recurrence IN
    CASE r.type = "once" ->
            isSameDayLD(startOfMonthLD(date), startOfMonthLD(r.startDate))
      [] r.type = "monthly" -> inMonthRange(date, r.startDate, r.endDate)
      [] r.type = "yearly" ->
            /\ inMonthRange(date, r.startDate, r.endDate)
            /\ date.m = r.startDate.m
      [] OTHER -> FALSE

-----------------------------------------------------------------------------
(* Simulation engine: spec.md section 4.3                                   *)

\* an insertion-ordered record (a JavaScript object with string keys)
hasKey(rec, key) == \E i \in 1..Len(rec) : rec[i].key = key

get(rec, key) == rec[CHOOSE i \in 1..Len(rec) : rec[i].key = key].value

put(rec, key, value) ==
    IF hasKey(rec, key)
    THEN [i \in 1..Len(rec) |->
            IF rec[i].key = key THEN [key |-> key, value |-> value] ELSE rec[i]]
    ELSE Append(rec, [key |-> key, value |-> value])

\* signedAmount without the sign of an expense
signedAmountUnsigned(event) == event.amount

signedAmount(event) ==
    IF event.type = "income" THEN event.amount ELSE 0 - event.amount

RECURSIVE sumSigned(_)
sumSigned(events) ==
    IF events = <<>> THEN 0
    ELSE signedAmount(Head(events)) + sumSigned(Tail(events))

\* one condition of unlockedBy, for the month `date`: the balance and the
\* firing history are those of the end of the previous month, the active
\* events are this month's candidates
\* conditionHolds where event-happened also sees the events active this month
conditionHoldsSameMonth(c, date, prevBalance, history, active) ==
    CASE c.type = "date-is" ->
            isSameDayLD(startOfMonthLD(date), startOfMonthLD(c.date))
      [] c.type = "date-in-range" -> inMonthRange(date, c.date, c.endDate)
      [] c.type = "networth-is-above" -> prevBalance >= c.amount
      [] c.type = "event-happened" ->
            \/ c.eventName \in history
            \/ \E i \in 1..Len(active) : active[i].name = c.eventName
      [] c.type = "income-is-above" ->
            \E i \in 1..Len(active) :
                active[i].name = c.eventName /\ active[i].amount >= c.amount
      [] OTHER -> FALSE

\* conditionHolds where the net worth must exceed the amount strictly
conditionHoldsStrictlyAbove(c, date, prevBalance, history, active) ==
    CASE c.type = "date-is" ->
            isSameDayLD(startOfMonthLD(date), startOfMonthLD(c.date))
      [] c.type = "date-in-range" -> inMonthRange(date, c.date, c.endDate)
      [] c.type = "networth-is-above" -> prevBalance > c.amount
      [] c.type = "event-happened" -> c.eventName \in history
      [] c.type = "income-is-above" ->
            \E i \in 1..Len(active) :
                active[i].name = c.eventName /\ active[i].amount >= c.amount
      [] OTHER -> FALSE

\* conditionHolds where income-is-above fails only on an active event of
\* that name below the amount
conditionHoldsUnlessBelow(c, date, prevBalance, history, active) ==
    CASE c.type = "date-is" ->
            isSameDayLD(startOfMonthLD(date), startOfMonthLD(c.date))
      [] c.type = "date-in-range" -> inMonthRange(date, c.date, c.endDate)
      [] c.type = "networth-is-above" -> prevBalance >= c.amount
      [] c.type = "event-happened" -> c.eventName \in history
      [] c.type = "income-is-above" ->
            \A i \in 1..Len(active) :
                active[i].name = c.eventName => active[i].amount >= c.amount
      [] OTHER -> FALSE

conditionHolds(c, date, prevBalance, history, active) ==
    CASE c.type = "date-is" ->
            isSameDayLD(startOfMonthLD(date), startOfMonthLD(c.date))
      [] c.type = "date-in-range" -> inMonthRange(date, c.date, c.endDate)
      [] c.type = "networth-is-above" -> prevBalance >= c.amount
      [] c.type = "event-happened" -> c.eventName \in history
      [] c.type = "income-is-above" ->
            \E i \in 1..Len(active) :
                active[i].name = c.eventName /\ active[i].amount >= c.amount
      [] OTHER -> FALSE

\* isUnlocked satisfied by any one condition of a non-empty list
isUnlockedByAny(event, date, prevBalance, history, active) ==
    \/ event.unlockedBy = <<>>
    \/ \E i \in 1..Len(event.unlockedBy) :
          conditionHolds(event.unlockedBy[i], date, prevBalance, history, active)

isUnlocked(event, date, prevBalance, history, active) ==
    \A i \in 1..Len(event.unlockedBy) :
        conditionHolds(event.unlockedBy[i], date, prevBalance, history, active)

activeEvents(events, date) ==
    SelectSeq(events, LAMBDA e : isEventActiveInMonth(date, e))

\* the active events unlocked one after the other, each seeing as this
\* month's candidates only the events unlocked before it
RECURSIVE firedInOrder(_, _, _, _, _)
firedInOrder(active, sofar, date, prevBalance, history) ==
    IF active = <<>> THEN sofar
    ELSE firedInOrder(Tail(active),
                      IF isUnlocked(Head(active), date, prevBalance, history, sofar)
                      THEN Append(sofar, Head(active)) ELSE sofar,
                      date, prevBalance, history)

\* firedEvents deciding the events in declared order
firedEventsInOrder(events, date, prevBalance, history) ==
    firedInOrder(activeEvents(events, date), <<>>, date, prevBalance, history)

firedEvents(events, date, prevBalance, history) ==
    LET active == activeEvents(events, date) IN
    SelectSeq(active, LAMBDA e : isUnlocked(e, date, prevBalance, history, active))

eventNames(events) == {events[i].name : i \in 1..Len(events)}

-----------------------------------------------------------------------------
(* Dividend generator: dividend-generator.ts.  Yields and rates are whole   *)
(* percentages, so initialValue * (annualYield / 12) is the exact quotient  *)
(* initialValue * annualYield / 1200; the inputs of the model are those for *)
(* which a quotient of at least 1 is a whole number.                        *)

PortfolioAsset(id, name, category_id, initialValue, currency) ==
    [id |-> id, name |-> name, category_id |-> category_id,
     initialValue |-> initialValue, currency |-> currency]

\* monthlyDividend > 1: a dividend of exactly 1 is left out
dividendIsMeaningfulAboveOne(asset, annualYield) ==
    asset.initialValue * annualYield > 12 * 100

\* monthlyDividend >= 1
dividendIsMeaningful(asset, annualYield) ==
    asset.initialValue * annualYield >= 12 * 100

monthlyDividend(asset, annualYield) ==
    (asset.initialValue * annualYield) \div (12 * 100)

RECURSIVE generateDividendEvents(_, _, _, _)
generateDividendEvents(assets, annualYield, start, end) ==
    IF assets = <<>> THEN <<>>
    ELSE LET asset == Head(assets)
             rest  == generateDividendEvents(Tail(assets), annualYield, start, end)
         IN  IF asset.category_id = "cash" THEN rest
             ELSE IF dividendIsMeaningful(asset, annualYield)
             THEN << makeRecurring("Dividends from " \o asset.name, "income",
                                   monthlyDividend(asset, annualYield),
                                   "monthly", start, end, <<>>) >> \o rest
             ELSE rest

-----------------------------------------------------------------------------
(* Simulation engine, continued: portfolio tracking and the month loop      *)

\* runScenario called without portfolioAssets
NoPortfolio == << PortfolioAsset("", "", "undefined", 0, "") >>

tracking == portfolioAssets # NoPortfolio

\* asset id -> initialValue, in asset order
RECURSIVE initialAssetValues(_)
initialAssetValues(assets) ==
    IF assets = NoPortfolio \/ assets = <<>> THEN <<>>
    ELSE put(initialAssetValues(SubSeq(assets, 1, Len(assets) - 1)),
             assets[Len(assets)].id, assets[Len(assets)].initialValue)

\* one month of growth at the monthly equivalent of the annual rate
growAsset(value, rate) == value + ((value * rate) \div (12 * 100))

growAssets(values, rate) ==
    [i \in 1..Len(values) |->
        [key |-> values[i].key, value |-> growAsset(values[i].value, rate)]]

RECURSIVE sumAssets(_)
sumAssets(values) ==
    IF values = <<>> THEN 0 ELSE Head(values).value + sumAssets(Tail(values))

\* totalBalance that leaves the assets out
totalBalanceOfCashOnly(cash, values) == cash

totalBalanceOf(cash, values) == cash + sumAssets(values)

\* the events simulated: the scenario's, then the dividends of the portfolio
\* when dividendYield is not zero
simulatedEvents ==
    scenario \o
    (IF dividendYield # 0 /\ tracking
     THEN generateDividendEvents(portfolioAssets, dividendYield, startDate, NoDate)
     ELSE <<>>)

\* the net worth the conditions of the month at hand are evaluated on
netWorth == IF tracking THEN totalBalanceOf(running, assetValues) ELSE running

\* the firing history a call starts from, whatever an earlier call left
\* behind: here a call that goes on from the history it finds
historyAtEntryCarried(left) == left

historyAtEntry(left) == {}

\* the loop of runScenario still has a month to process
monthsRemain == ~isAfterLD(cursor, startOfMonthLD(endDate))

\* one iteration of the month loop
ProcessMonth ==
    /\ pc = "loop"
    /\ monthsRemain
    /\ LET key   == toKeyMonth(cursor)
           fired == firedEvents(simulatedEvents, cursor, netWorth, happened)
           net   == sumSigned(fired)
           grown == growAssets(assetValues, growthRate)
       IN  /\ cashflow' = put(cashflow, key, [amount |-> net, events |-> fired])
           /\ running' = running + net
           /\ happened' = happened \cup eventNames(fired)
           /\ IF tracking
              THEN /\ cashBalance' = put(cashBalance, key, running + net)
                   /\ assetValues' = grown
                   /\ assetBalance' = put(assetBalance, key, grown)
                   /\ totalBalance' =
                         put(totalBalance, key, totalBalanceOf(running + net, grown))
                   /\ UNCHANGED balance
              ELSE /\ balance' = put(balance, key, running + net)
                   /\ UNCHANGED <<assetValues, cashBalance, assetBalance,
                                  totalBalance>>
    /\ cursor' = addMonthsLD(cursor, 1)
    /\ UNCHANGED <<scenario, startDate, endDate, initialBalance, pc,
                   portfolioAssets, growthRate, dividendYield, pending,
                   analysis, previous, runs, timeline, offset>>
    /\ UNCHANGED <<fullScenario, enabledEventNames, toggled, positions>>

\* the loop ends after endDate's month and the result is returned
Return ==
    /\ pc = "loop"
    /\ ~monthsRemain
    /\ pc' = "done"
    /\ UNCHANGED <<scenario, startDate, endDate, initialBalance, cursor,
                   running, happened, balance, cashflow, portfolioAssets,
                   growthRate, dividendYield, assetValues, cashBalance,
                   assetBalance, totalBalance, pending, analysis, previous,
                   runs, timeline, offset>>
    /\ UNCHANGED <<fullScenario, enabledEventNames, toggled, positions>>

Next == ProcessMonth \/ Return

\* no timeline made yet
NoTimeline == <<>>

\* no checkbox of the toolbar used yet
NoToggle == <<>>

\* the page has fetched no positions
NoPositions == [status |-> "pending", value |-> <<>>]

\* no analysis made yet
NoAnalysis ==
    [independentEvents |-> <<>>, conditionalEvents |-> <<>>,
     triggeredEvents |-> <<>>, eventFlow |-> <<>>]

\* the inputs of the call at hand
inputs ==
    [scenario |-> scenario, startDate |-> startDate, endDate |-> endDate,
     initialBalance |-> initialBalance, portfolioAssets |-> portfolioAssets,
     growthRate |-> growthRate, dividendYield |-> dividendYield]

\* the result the call at hand returns
result ==
    [cashflow |-> cashflow, balance |-> balance, cashBalance |-> cashBalance,
     assetBalance |-> assetBalance, totalBalance |-> totalBalance]

\* no call was made before this one
NoRun ==
    [inputs |-> [scenario |-> <<>>, startDate |-> NoDate, endDate |-> NoDate,
                 initialBalance |-> 0, portfolioAssets |-> NoPortfolio,
                 growthRate |-> 0, dividendYield |-> 0],
     result |-> [cashflow |-> <<>>, balance |-> <<>>, cashBalance |-> <<>>,
                 assetBalance |-> <<>>, totalBalance |-> <<>>]]

\* the state in which the month loop of a call is entered
entered(events, start, end, initial, assets, growth, yield) ==
    /\ scenario = events
    /\ startDate = start
    /\ endDate = end
    /\ initialBalance = initial
    /\ portfolioAssets = assets
    /\ growthRate = growth
    /\ dividendYield = yield
    /\ cursor = startOfMonthLD(start)
    /\ running = initial
    /\ happened = historyAtEntry({})
    /\ balance = <<>>
    /\ cashflow = <<>>
    /\ assetValues = initialAssetValues(assets)
    /\ cashBalance = <<>>
    /\ assetBalance = <<>>
    /\ totalBalance = <<>>

\* the first call of a session: nothing analysed yet, every event enabled
firstCall ==
    /\ pending = <<>>
    /\ analysis = NoAnalysis
    /\ previous = NoRun
    /\ runs = 1
    /\ timeline = NoTimeline
    /\ offset = 0
    /\ fullScenario = scenario
    /\ enabledEventNames = eventNames(scenario)
    /\ toggled = NoToggle
    /\ positions = NoPositions

\* runScenario entered with the given inputs, without a portfolio
runScenario(events, start, end, initial) ==
    /\ entered(events, start, end, initial, NoPortfolio, 0, 0)
    /\ firstCall
    /\ pc = "loop"

\* runScenario entered with the given inputs and a portfolio to track
runScenarioExtended(events, start, end, initial, assets, growth, yield) ==
    /\ entered(events, start, end, initial, assets, growth, yield)
    /\ firstCall
    /\ pc = "loop"

-----------------------------------------------------------------------------
(* Inputs of the condition model: scenarios of up to MaxEvents events with  *)
(* unique names, simulated over the first months of BaseYear.               *)

Names == <<"A", "B", "C", "D">>

\* a name no event of the scenario carries
Ghost == "Ghost"

\* the names the conditions of the model refer to
RefNames == {Names[1], Names[2], Ghost}

\* type, amount and recurrence of the events of the condition model
Bases ==
    { [type |-> "income", amount |-> 2000,
       recurrence |-> Recurrence("monthly", ld(BaseYear, 1, 1), NoDate)],
      [type |-> "income", amount |-> 5000,
       recurrence |-> Recurrence("monthly", ld(BaseYear, 2, 15), ld(BaseYear, 3, 20))],
      [type |-> "expense", amount |-> 4000,
       recurrence |-> Recurrence("monthly", ld(BaseYear, 1, 1), NoDate)] }

UnlockLists ==
    { <<>>,
      <<networthIsAbove(Names[1], 6000)>>,
      <<dateInRange(ld(BaseYear, 2, 1), ld(BaseYear, 4, 30))>>,
      <<eventHappened(Names[1]), networthIsAbove(Names[1], 6000)>> }
    \cup { <<eventHappened(r)>> : r \in RefNames }
    \cup { <<incomeIsAbove(r, 4000)>> : r \in RefNames }

Bodies == Bases \X UnlockLists

bodyEvent(name, body) ==
    makeEvent(name, body[1].type, body[1].amount, body[1].recurrence, body[2])

\* the scenario whose i-th event has the name Names[i] and the body f[i]
scenarioOf(f) == [i \in DOMAIN f |-> bodyEvent(Names[i], f[i])]

InitialBalances == {0, 6000}

Init ==
    \E n \in 0..MaxEvents, initial \in InitialBalances :
        \E f \in [1..n -> Bodies] :
            runScenario(scenarioOf(f), ld(BaseYear, 1, 1),
                        ld(BaseYear, MaxEndMonth, 1), initial)

Spec == Init /\ [][Next]_vars

-----------------------------------------------------------------------------
(* Inputs of the recurrence model: one condition-free event with any        *)
(* recurrence over the date domain, simulated over ranges that cross years. *)

EventDates == {ld(y, m, d) : y \in Years, m \in {1, 6, 12}, d \in {1, 28}}

SimStarts == {ld(BaseYear, m, d) : m \in {1, 12}, d \in {1, 28}}

SimEnds == {ld(y, m, d) : y \in Years, m \in {1, 12}, d \in {1, 28}}

\* the condition-free events of the recurrence model, as their factories
\* construct them
RecEvents ==
    { makeOneOff(Names[1], "expense", 1000, d, <<>>) : d \in EventDates }
    \cup { makeRecurring(Names[1], "expense", 1000, x[1], x[2], x[3], <<>>) :
           x \in { t \in {"monthly", "yearly"} \X EventDates \X (EventDates \cup {NoDate}) :
                   validRange(t[2], t[3]) } }

InitRec ==
    \E e \in RecEvents, start \in SimStarts, end \in SimEnds :
        runScenario(<<e>>, start, end, 0)

SpecRec == InitRec /\ [][Next]_vars

-----------------------------------------------------------------------------
(* Reading a result, for the properties below.  These definitions restate   *)
(* the calendar arithmetic on month numbers instead of reusing the engine's.*)

\* months since year 0
monthIndex(d) == d.y * 12 + (d.m - 1)

\* the month the i-th entry of a result stands for
monthAt(i) ==
    LET t == monthIndex(startDate) + (i - 1)
    IN  ld(t \div 12, (t % 12) + 1, 1)

\* "YYYY-MM" of a four-digit year, digit by digit
keyOf(d) ==
    << 48 + (d.y \div 1000), 48 + ((d.y \div 100) % 10), 48 + ((d.y \div 10) % 10),
       48 + (d.y % 10), 45, 48 + (d.m \div 10), 48 + (d.m % 10) >>

\* the event named `name` is recorded as fired in the i-th month
firedIn(i, name) ==
    \E j \in 1..Len(cashflow[i].value.events) :
        cashflow[i].value.events[j].name = name

\* the i-th month lies in the months from date s to date e (NoDate: open)
withinMonths(i, s, e) ==
    /\ monthIndex(s) <= monthIndex(monthAt(i))
    /\ (e = NoDate \/ monthIndex(monthAt(i)) <= monthIndex(e))

RECURSIVE totalOf(_, _)
totalOf(events, type) ==
    IF events = <<>> THEN 0
    ELSE (IF Head(events).type = type THEN Head(events).amount ELSE 0)
         + totalOf(Tail(events), type)

-----------------------------------------------------------------------------
(* Properties                                                               *)

\* C1: in every result the balance of a month is the balance of the month
\* before it (initialBalance for the first month) plus that month's
\* cashflow amount.
C1_BalanceRecurrence ==
    /\ Len(balance) = Len(cashflow)
    /\ \A i \in 1..Len(balance) :
          /\ hasKey(cashflow, balance[i].key)
          /\ balance[i].value =
                (IF i = 1 THEN initialBalance ELSE balance[i - 1].value)
                + get(cashflow, balance[i].key).amount

C1_Witness ==
    /\ pc = "done"
    /\ Len(balance) >= 3
    /\ initialBalance = 6000
    /\ cashflow[1].value.amount > 0
    /\ cashflow[2].value.amount < 0
    /\ balance[3].value # balance[2].value

\* C2: the cashflow amount of a month is the sum of the amounts of the
\* income events recorded as fired in it minus the sum of the amounts of the
\* expense events recorded as fired in it, and 0 when none fired.
C2_CashflowIsSumOfFired ==
    pc = "done" =>
    \A i \in 1..Len(cashflow) :
        /\ cashflow[i].value.amount =
              totalOf(cashflow[i].value.events, "income")
              - totalOf(cashflow[i].value.events, "expense")
        /\ cashflow[i].value.events = <<>> => cashflow[i].value.amount = 0

C2_Witness ==
    /\ pc = "done"
    /\ \E i, j \in 1..Len(cashflow) :
          /\ Len(cashflow[i].value.events) = 2
          /\ cashflow[i].value.events[1].type = "income"
          /\ cashflow[i].value.events[2].type = "expense"
          /\ cashflow[i].value.amount = 0 - 2000
          /\ cashflow[j].value.events = <<>>

\* the only event of a scenario of the recurrence model
theEvent == scenario[1]

\* C3: a condition-free one-off event with date D is active and fires in
\* exactly the simulated month whose year and month are D's, and in no other
\* month, the same month-number of another year included.
C3_OneOffFiresInItsMonthOnly ==
    (Len(scenario) = 1 /\ theEvent.recurrence.type = "once"
        /\ theEvent.unlockedBy = <<>>) =>
    LET D == theEvent.recurrence.startDate IN
    /\ \A i \in 1..Len(cashflow) :
          firedIn(i, theEvent.name) <=>
              (monthAt(i).y = D.y /\ monthAt(i).m = D.m)
    /\ \A date \in EventDates \cup {cursor} :
          isEventActiveInMonth(date, theEvent) <=>
              (date.y = D.y /\ date.m = D.m)

C3_Witness ==
    /\ pc = "done"
    /\ Len(scenario) = 1
    /\ theEvent.recurrence.type = "once"
    /\ \E i, j \in 1..Len(cashflow) :
          /\ firedIn(i, theEvent.name)
          /\ monthAt(i).m = theEvent.recurrence.startDate.m
          /\ j # i
          /\ monthAt(j).m = theEvent.recurrence.startDate.m
          /\ ~firedIn(j, theEvent.name)

\* C4: a condition-free monthly event with range [S,E] fires in every
\* simulated month from S's month to E's month inclusive and in no other,
\* whatever the days of S and E; with E absent it fires in every simulated
\* month from S's month on.
C4_MonthlyFiresWithinRange ==
    (Len(scenario) = 1 /\ theEvent.recurrence.type = "monthly"
        /\ theEvent.unlockedBy = <<>>) =>
    \A i \in 1..Len(cashflow) :
        firedIn(i, theEvent.name) <=>
            withinMonths(i, theEvent.recurrence.startDate, theEvent.recurrence.endDate)

C4_Witness ==
    /\ pc = "done"
    /\ Len(scenario) = 1
    /\ theEvent.recurrence.type = "monthly"
    /\ theEvent.recurrence.startDate.d = 28
    /\ theEvent.recurrence.endDate # NoDate
    /\ theEvent.recurrence.endDate.d = 1
    /\ \E i, j, k, l \in 1..Len(cashflow) :
          /\ i < j /\ j < k /\ k < l
          /\ ~firedIn(i, theEvent.name)
          /\ firedIn(j, theEvent.name)
          /\ monthIndex(monthAt(j)) = monthIndex(theEvent.recurrence.startDate)
          /\ firedIn(k, theEvent.name)
          /\ monthIndex(monthAt(k)) = monthIndex(theEvent.recurrence.endDate)
          /\ ~firedIn(l, theEvent.name)

\* C5: a yearly event with range [S,E] is active (and, condition-free, fires)
\* in a month iff the month lies between S's and E's months inclusive (from
\* S's month on when E is absent) and has S's month-number; it is inactive
\* before S's month even when the month-number matches.
C5_YearlyActiveOnMonthNumberWithinRange ==
    (Len(scenario) = 1 /\ theEvent.recurrence.type = "yearly"
        /\ theEvent.unlockedBy = <<>>) =>
    LET S == theEvent.recurrence.startDate
        E == theEvent.recurrence.endDate
    IN  \A i \in 1..Len(cashflow) :
          /\ isEventActiveInMonth(monthAt(i), theEvent) <=>
                (withinMonths(i, S, E) /\ monthAt(i).m = S.m)
          /\ firedIn(i, theEvent.name) <=>
                (withinMonths(i, S, E) /\ monthAt(i).m = S.m)

C5_Witness ==
    /\ pc = "done"
    /\ Len(scenario) = 1
    /\ theEvent.recurrence.type = "yearly"
    /\ \E i, j \in 1..Len(cashflow) :
          /\ i < j
          /\ monthAt(i).m = theEvent.recurrence.startDate.m
          /\ ~firedIn(i, theEvent.name)
          /\ ~isEventActiveInMonth(monthAt(i), theEvent)
          /\ firedIn(j, theEvent.name)

\* startDate is not after endDate
startNotAfterEnd ==
    \/ monthIndex(startDate) < monthIndex(endDate)
    \/ (monthIndex(startDate) = monthIndex(endDate) /\ startDate.d <= endDate.d)

\* the number of calendar months from startDate's to endDate's, inclusive
monthCount == monthIndex(endDate) - monthIndex(startDate) + 1

\* C10: for startDate <= endDate the balance and cashflow maps hold exactly
\* one entry per calendar month from startDate's month to endDate's month,
\* in chronological order without gaps, and the loop goes on exactly until
\* endDate's month is processed, when the run returns.
C10_OneEntryPerMonthThenReturn ==
    startNotAfterEnd =>
    /\ Len(cashflow) <= monthCount
    /\ Len(balance) = Len(cashflow)
    /\ \A i \in 1..Len(cashflow) :
          /\ cashflow[i].key = keyOf(monthAt(i))
          /\ balance[i].key = keyOf(monthAt(i))
    /\ cursor = monthAt(Len(cashflow) + 1)
    /\ pc = "done" => Len(cashflow) = monthCount
    /\ pc = "loop" => (monthsRemain <=> Len(cashflow) < monthCount)

C10_Witness ==
    /\ pc = "done"
    /\ startDate.d > endDate.d
    /\ startDate.m = 12
    /\ endDate.m = 12
    /\ Len(cashflow) = 13
    /\ cashflow[1].key = <<50, 48, 50, 53, 45, 49, 50>>
    /\ cashflow[2].key = <<50, 48, 50, 54, 45, 48, 49>>

\* the balance recorded at the end of the month before the i-th
balanceBefore(i) == IF i = 1 THEN initialBalance ELSE balance[i - 1].value

\* the event named `name` fired in a month before the i-th
firedBefore(i, name) == \E j \in 1..(i - 1) : firedIn(j, name)

\* event-happened(name) as the engine would evaluate it for the month at hand
happenedNow(name) ==
    conditionHolds(eventHappened(name), cursor, running, happened,
                   activeEvents(scenario, cursor))

C6_State ==
    /\ \A x \in RefNames :
          happenedNow(x) <=> \E j \in 1..Len(cashflow) : firedIn(j, x)
    /\ \A k \in 1..Len(scenario), i \in 1..Len(cashflow) :
          (Len(scenario[k].unlockedBy) = 1
              /\ scenario[k].unlockedBy[1].type = "event-happened") =>
          (firedIn(i, scenario[k].name) <=>
              /\ isEventActiveInMonth(monthAt(i), scenario[k])
              /\ firedBefore(i, scenario[k].unlockedBy[1].eventName))

\* C6: within a run event-happened(X) is false for every month up to and
\* including the first month in which X fires and true for every later
\* month: it holds for the month at hand iff X is recorded as fired in an
\* already processed month, an event gated by it alone fires exactly in its
\* active months after X's first firing, and the firing history only grows.
C6_EventHappenedAfterFirstFiring ==
    /\ [](C6_State)
    /\ [][\A x \in happened : x \in happened']_vars
    /\ [][\A x \in RefNames : happenedNow(x) => happenedNow(x)']_vars

\* B fires first in the second month and stops; A, gated by
\* event-happened(B), is held back through that month and fires ever after
C6_Witness ==
    /\ pc = "done"
    /\ Len(scenario) = 2
    /\ Len(cashflow) >= 5
    /\ scenario[1].unlockedBy = <<eventHappened(scenario[2].name)>>
    /\ ~firedIn(1, scenario[2].name)
    /\ firedIn(2, scenario[2].name)
    /\ ~firedIn(4, scenario[2].name)
    /\ ~firedIn(1, scenario[1].name)
    /\ ~firedIn(2, scenario[1].name)
    /\ firedIn(3, scenario[1].name)
    /\ firedIn(4, scenario[1].name)
    /\ firedIn(5, scenario[1].name)

\* the scenario of the networth-is-above test: a 2000 monthly income and a
\* 4000 expense unlocked by a net worth of 6000
salaryAndHolidays ==
    << makeRecurring(Names[1], "income", 2000, "monthly",
                     ld(BaseYear, 1, 1), NoDate, <<>>),
       makeRecurring(Names[2], "expense", 4000, "monthly",
                     ld(BaseYear, 1, 1), NoDate,
                     <<networthIsAbove(Names[1], 6000)>>) >>

\* C7: an event gated by networth-is-above(amount) fires in a month only if
\* the balance recorded at the end of the month before (initialBalance for
\* the first month) is >= amount, and gated by that alone it fires in every
\* active month where it is; the 2000 income with the 4000 expense gated at
\* 6000 from balance 0 gives the balances 2000, 4000, 6000, 4000, 6000.
C7_NetworthUsesPreviousBalance ==
    pc = "done" =>
    /\ \A k \in 1..Len(scenario), i \in 1..Len(cashflow) :
          /\ \A n \in 1..Len(scenario[k].unlockedBy) :
                (scenario[k].unlockedBy[n].type = "networth-is-above"
                    /\ firedIn(i, scenario[k].name)) =>
                balanceBefore(i) >= scenario[k].unlockedBy[n].amount
          /\ (Len(scenario[k].unlockedBy) = 1
                 /\ scenario[k].unlockedBy[1].type = "networth-is-above") =>
             (firedIn(i, scenario[k].name) <=>
                 /\ isEventActiveInMonth(monthAt(i), scenario[k])
                 /\ balanceBefore(i) >= scenario[k].unlockedBy[1].amount)
    /\ (scenario = salaryAndHolidays /\ initialBalance = 0) =>
          \A i \in 1..Len(balance) :
              i <= 5 => balance[i].value = <<2000, 4000, 6000, 4000, 6000>>[i]

C7_Witness ==
    /\ pc = "done"
    /\ scenario = salaryAndHolidays
    /\ initialBalance = 0
    /\ Len(balance) >= 5
    /\ ~firedIn(3, Names[2])
    /\ firedIn(4, Names[2])
    /\ ~firedIn(5, Names[2])
    /\ balance[5].value = 6000

candidateIn(i, name, amount) ==
    \E k \in 1..Len(scenario) :
        /\ scenario[k].name = name
        /\ isEventActiveInMonth(monthAt(i), scenario[k])
        /\ scenario[k].amount >= amount

\* condition c is satisfied for the i-th month, read off the result
satisfiedIn(c, i) ==
    CASE c.type = "date-is" -> monthIndex(monthAt(i)) = monthIndex(c.date)
      [] c.type = "date-in-range" -> withinMonths(i, c.date, c.endDate)
      [] c.type = "networth-is-above" -> balanceBefore(i) >= c.amount
      [] c.type = "event-happened" -> firedBefore(i, c.eventName)
      [] c.type = "income-is-above" -> candidateIn(i, c.eventName, c.amount)
      [] OTHER -> FALSE

-----------------------------------------------------------------------------
(* Calling runScenario again, as the client does whenever an input of its   *)
(* memo changes: the call before is kept for comparison.                    *)

\* largest number of runScenario calls in a session
MaxRuns == 2

\* runScenario called once more, on the events given and the other inputs of
\* the call before
callAgain(events) ==
    /\ pc = "done"
    /\ runs < MaxRuns
    /\ previous' = [inputs |-> inputs, result |-> result]
    /\ runs' = runs + 1
    /\ scenario' = events
    /\ cursor' = startOfMonthLD(startDate)
    /\ running' = initialBalance
    /\ happened' = historyAtEntry(happened)
    /\ balance' = <<>>
    /\ cashflow' = <<>>
    /\ assetValues' = initialAssetValues(portfolioAssets)
    /\ cashBalance' = <<>>
    /\ assetBalance' = <<>>
    /\ totalBalance' = <<>>
    /\ pc' = "loop"
    /\ UNCHANGED <<startDate, endDate, initialBalance, portfolioAssets,
                   growthRate, dividendYield, pending, analysis, timeline,
                   offset>>
    /\ UNCHANGED <<fullScenario, enabledEventNames, toggled, positions>>

\* the same inputs once more
RunAgain == callAgain(scenario)

\* the same events in another order
RunPermuted ==
    \E p \in Permutations(1..Len(scenario)) :
        callAgain([i \in 1..Len(scenario) |-> scenario[p[i]]])

-----------------------------------------------------------------------------
(* Inputs of the portfolio model: a few scenarios over every portfolio of   *)
(* up to MaxAssets holdings, with and without growth and dividends.         *)

\* largest number of holdings in a portfolio
MaxAssets == 2

AssetPool ==
    { PortfolioAsset("a1", "Fund", "equity", 6000, "USD"),
      PortfolioAsset("a2", "Bond", "fixed_income", 300, "USD"),
      PortfolioAsset("a3", "Wallet", "cash", 1200, "USD"),
      PortfolioAsset("a4", "Gold", "commodities", 600, "USD"),
      PortfolioAsset("a5", "Fund", "equity", 1200, "USD") }

\* the asset lists without a repeated holding, and no list at all
Portfolios ==
    { NoPortfolio } \cup
    UNION { { f \in [1..n -> AssetPool] :
                \A i, j \in 1..n : i # j => f[i].id # f[j].id } :
            n \in 0..MaxAssets }

\* annual rates, in percent
GrowthRates == {0, 12}

DividendYields == {0, 2}

PortfolioScenarios ==
    { <<>>,
      salaryAndHolidays,
      << makeRecurring(Names[1], "income", 2000, "monthly",
                       ld(BaseYear, 2, 1), NoDate, <<>>),
         makeRecurring(Names[2], "expense", 500, "monthly",
                       ld(BaseYear, 1, 1), NoDate,
                       <<eventHappened(Names[1])>>),
         makeRecurring(Names[3], "expense", 5, "monthly",
                       ld(BaseYear, 1, 1), ld(BaseYear, 3, 31),
                       <<incomeIsAbove("Dividends from Fund", 10)>>) >> }

InitPortfolio ==
    \E events \in PortfolioScenarios, initial \in InitialBalances,
       assets \in Portfolios, growth \in GrowthRates, yield \in DividendYields :
        runScenarioExtended(events, ld(BaseYear, 1, 1),
                            ld(BaseYear, MaxEndMonth, 1), initial,
                            assets, growth, yield)

NextPortfolio == ProcessMonth \/ Return \/ RunAgain

SpecPortfolio == InitPortfolio /\ [][NextPortfolio]_vars

RECURSIVE grownTimes(_, _, _)
grownTimes(value, rate, n) ==
    IF n = 0 THEN value
    ELSE LET before == grownTimes(value, rate, n - 1)
         IN  before + ((before * rate) \div 1200)

\* the sum of the first n per-asset balances of a month
RECURSIVE sumOfFirst(_, _)
sumOfFirst(values, n) ==
    IF n = 0 THEN 0 ELSE sumOfFirst(values, n - 1) + values[n].value

\* C16: with portfolio tracking enabled, in every month of the extended
\* result totalBalance is cashBalance plus the sum of the per-asset balances
\* of assetBalance; the cash balance moves by the month's net cashflow and
\* each asset balance is its initial value grown month by month, whatever
\* events fired.
C16_TotalIsCashPlusAssets ==
    tracking =>
    /\ Len(cashBalance) = Len(cashflow)
    /\ Len(assetBalance) = Len(cashflow)
    /\ Len(totalBalance) = Len(cashflow)
    /\ \A i \in 1..Len(cashflow) :
          /\ cashBalance[i].key = cashflow[i].key
          /\ assetBalance[i].key = cashflow[i].key
          /\ totalBalance[i].key = cashflow[i].key
          /\ totalBalance[i].value =
                cashBalance[i].value
                + sumOfFirst(assetBalance[i].value, Len(assetBalance[i].value))
          /\ cashBalance[i].value =
                (IF i = 1 THEN initialBalance ELSE cashBalance[i - 1].value)
                + cashflow[i].value.amount
          /\ Len(assetBalance[i].value) = Len(portfolioAssets)
          /\ \A j \in 1..Len(portfolioAssets) :
                /\ assetBalance[i].value[j].key = portfolioAssets[j].id
                /\ assetBalance[i].value[j].value =
                      grownTimes(portfolioAssets[j].initialValue, growthRate, i)

\* two holdings grow while the expense of the second month takes 4000 out
\* of the cash balance and the dividends add to it
C16_Witness ==
    /\ pc = "done"
    /\ tracking
    /\ Len(portfolioAssets) = 2
    /\ growthRate # 0
    /\ dividendYield # 0
    /\ Len(cashflow) >= 3
    /\ firedIn(2, Names[2])
    /\ scenario[2].type = "expense"
    /\ firedIn(2, "Dividends from Fund")
    /\ cashBalance[2].value < cashBalance[1].value
    /\ assetBalance[2].value[1].value > assetBalance[1].value[1].value
    /\ assetBalance[2].value[2].value > assetBalance[1].value[2].value
    /\ totalBalance[2].value > cashBalance[2].value

-----------------------------------------------------------------------------
(* Inputs of the ordering model: scenarios of up to MaxEvents events that   *)
(* refer to each other, simulated and then simulated again in every other   *)
(* order of their events.                                                   *)

OrderBodies ==
    { b \in Bodies :
        \/ b[2] = <<>> /\ b[1].type = "income"
        \/ b[2] = <<networthIsAbove(Names[1], 6000)>> /\ b[1].amount = 5000
        \/ /\ b[1].type = "expense"
           /\ b[2] \in { <<eventHappened(r)>> : r \in RefNames }
                       \cup { <<incomeIsAbove(r, 4000)>> : r \in RefNames } }

InitOrder ==
    \E n \in 0..MaxEvents, initial \in InitialBalances :
        \E f \in [1..n -> OrderBodies] :
            runScenario(scenarioOf(f), ld(BaseYear, 1, 1),
                        ld(BaseYear, MaxEndMonth, 1), initial)

NextOrder == ProcessMonth \/ Return \/ RunPermuted

SpecOrder == InitOrder /\ [][NextOrder]_vars

\* the names of the events recorded as fired in an entry of a cashflow map
firedNames(entry) ==
    {entry.value.events[j].name : j \in 1..Len(entry.value.events)}

\* seq holds the elements of other, each as often, in some order
isPermutationOf(seq, other) ==
    /\ Len(seq) = Len(other)
    /\ \A x \in {seq[i] : i \in 1..Len(seq)} \cup {other[i] : i \in 1..Len(other)} :
          Cardinality({i \in 1..Len(seq) : seq[i] = x})
          = Cardinality({i \in 1..Len(other) : other[i] = x})

\* C13: a call on the events of the call before in another order (names
\* unique, other inputs the same) records for every month the same set of
\* fired events, the same net cashflow and the same balance, and as many
\* months.
C13_EventOrderDoesNotMatter ==
    (runs > 1 /\ isPermutationOf(scenario, previous.inputs.scenario)) =>
        /\ Len(cashflow) <= Len(previous.result.cashflow)
        /\ pc = "done" => Len(cashflow) = Len(previous.result.cashflow)
        /\ \A i \in 1..Len(cashflow) :
              /\ cashflow[i].key = previous.result.cashflow[i].key
              /\ firedNames(cashflow[i]) = firedNames(previous.result.cashflow[i])
              /\ cashflow[i].value.amount = previous.result.cashflow[i].value.amount
              /\ balance[i] = previous.result.balance[i]

\* B, gated by income-is-above(A), is declared after A in the first call
\* and before A in the second: in the second month both fire in both calls,
\* listed in the other order
C13_Witness ==
    /\ pc = "done"
    /\ runs = 2
    /\ Len(scenario) = 2
    /\ scenario[1].name = Names[2]
    /\ scenario[2].name = Names[1]
    /\ previous.inputs.scenario = <<scenario[2], scenario[1]>>
    /\ scenario[1].unlockedBy = <<incomeIsAbove(Names[1], 4000)>>
    /\ Len(cashflow) >= 4
    /\ cashflow[1].value.events = <<>>
    /\ cashflow[2].value.events = <<scenario[1], scenario[2]>>
    /\ previous.result.cashflow[2].value.events = <<scenario[2], scenario[1]>>
    /\ cashflow[4].value.events = <<>>

\* condition c names an event that is not in the scenario
isDangling(c) ==
    /\ c.type \in {"event-happened", "income-is-above"}
    /\ \A j \in 1..Len(scenario) : scenario[j].name # c.eventName

\* C14: an event with an event-happened or income-is-above condition whose
\* name matches no event of the simulated scenario is recorded as fired in
\* no month, and the run goes on to return without an error.
C14_DanglingReferenceNeverFires ==
    /\ pc \in {"loop", "done"}
    /\ \A k \in 1..Len(scenario), i \in 1..Len(cashflow) :
          (\E n \in 1..Len(scenario[k].unlockedBy) :
                isDangling(scenario[k].unlockedBy[n]))
          => ~firedIn(i, scenario[k].name)

\* two expenses active in every month, one gated by event-happened and one
\* by income-is-above on a name no event carries: the run has returned and
\* neither has fired
C14_Witness ==
    /\ pc = "done"
    /\ Len(scenario) = 2
    /\ Len(cashflow) >= 5
    /\ scenario[1].unlockedBy = <<eventHappened(Ghost)>>
    /\ scenario[2].unlockedBy = <<incomeIsAbove(Ghost, 4000)>>
    /\ \A i \in 1..Len(cashflow) :
          /\ isEventActiveInMonth(monthAt(i), scenario[1])
          /\ isEventActiveInMonth(monthAt(i), scenario[2])
          /\ cashflow[i].value.events = <<>>

-----------------------------------------------------------------------------
(* Constructing the events: the caller makes its makeRecurring calls one    *)
(* after the other, as in the array literal of makeScenario, and calls      *)
(* runScenario once every one of them has returned.                         *)

\* the arguments of a makeRecurring call
RecurringArgs(name, type, amount, frequency, start, end, unlockedBy) ==
    [name |-> name, type |-> type, amount |-> amount, frequency |-> frequency,
     startDate |-> start, endDate |-> end, unlockedBy |-> unlockedBy]

\* the next makeRecurring call: it throws, and nothing is simulated, or it
\* returns the next event of the scenario
Construct ==
    /\ pc = "construct"
    /\ pending # <<>>
    /\ LET a == Head(pending)
           event == makeRecurring(a.name, a.type, a.amount, a.frequency,
                                  a.startDate, a.endDate, a.unlockedBy)
       IN  IF event = ConstructionError
           THEN /\ pc' = "error"
                /\ UNCHANGED <<scenario, pending>>
           ELSE /\ scenario' = Append(scenario, event)
                /\ pending' = Tail(pending)
                /\ pc' = IF Tail(pending) = <<>> THEN "loop" ELSE "construct"
    /\ UNCHANGED <<startDate, endDate, initialBalance, cursor, running,
                   happened, balance, cashflow, portfolioAssets, growthRate,
                   dividendYield, assetValues, cashBalance, assetBalance,
                   totalBalance, analysis, previous, runs, timeline,
                   offset>>
    /\ UNCHANGED <<fullScenario, enabledEventNames, toggled, positions>>

\* the calls of the construction model: any frequency, start and end
ConstructCalls ==
    { RecurringArgs(Names[2], "expense", 1000, x[1], x[2], x[3], <<>>) :
        x \in {"monthly", "yearly"} \X EventDates \X (EventDates \cup {NoDate}) }

\* a call with a well-formed range, made before the call under study
salaryCall ==
    RecurringArgs(Names[1], "income", 2000, "monthly", ld(BaseYear, 1, 1),
                  NoDate, <<>>)

InitConstruct ==
    \E call \in ConstructCalls :
      \E calls \in {<<call>>, <<salaryCall, call>>} :
        /\ entered(<<>>, ld(BaseYear, 1, 1), ld(BaseYear + NumYears - 1, 12, 1),
                   0, NoPortfolio, 0, 0)
        /\ pending = calls
        /\ analysis = NoAnalysis
        /\ previous = NoRun
        /\ runs = 1
        /\ timeline = NoTimeline
        /\ offset = 0
        /\ fullScenario = <<>>
        /\ enabledEventNames = {}
        /\ toggled = NoToggle
        /\ positions = NoPositions
        /\ pc = "construct"

NextConstruct == Construct \/ ProcessMonth \/ Return

SpecConstruct == InitConstruct /\ [][NextConstruct]_vars

\* date e is present and earlier than date s
endsBeforeStart(s, e) ==
    /\ e # NoDate
    /\ \/ monthIndex(e) < monthIndex(s)
       \/ (monthIndex(e) = monthIndex(s) /\ e.d < s.d)

C15_State ==
    /\ \A k \in 1..Len(scenario) :
          /\ scenario[k] # ConstructionError
          /\ ~endsBeforeStart(scenario[k].recurrence.startDate,
                              scenario[k].recurrence.endDate)
    /\ pc = "error" =>
          /\ pending # <<>>
          /\ endsBeforeStart(Head(pending).startDate, Head(pending).endDate)
          /\ cashflow = <<>>
    /\ pc \in {"loop", "done"} => pending = <<>>

\* C15: a makeRecurring call whose endDate is present and earlier than its
\* startDate fails at the call, and only such a call fails: the call's event
\* is never returned, nothing is simulated after the failure, and no
\* scenario ever holds an event with an inverted range; every other call
\* returns its event with the range as given.
C15_InvertedRangeFailsAtConstruction ==
    /\ [](C15_State)
    /\ [][(pc = "construct" /\ pending # <<>>) =>
            IF endsBeforeStart(Head(pending).startDate, Head(pending).endDate)
            THEN pc' = "error" /\ scenario' = scenario /\ cashflow' = <<>>
            ELSE /\ pc' # "error"
                 /\ Len(scenario') = Len(scenario) + 1
                 /\ scenario'[Len(scenario')].recurrence =
                       Recurrence(Head(pending).frequency,
                                  Head(pending).startDate, Head(pending).endDate)
         ]_vars

\* the salary has been constructed; the next call, whose range ends on the
\* first of the month it starts on the 28th of, has thrown
C15_Witness ==
    /\ pc = "error"
    /\ Len(scenario) = 1
    /\ Len(pending) = 1
    /\ Head(pending).startDate.d = 28
    /\ Head(pending).endDate.d = 1
    /\ Head(pending).endDate.y = Head(pending).startDate.y
    /\ Head(pending).endDate.m = Head(pending).startDate.m
    /\ cashflow = <<>>

-----------------------------------------------------------------------------
(* Dependency analyzer: event-analyzer.ts.  A string built by a template    *)
(* literal is the record of its pieces; a formatted number is its sequence  *)
(* of character codes.                                                      *)

\* Number.prototype.toLocaleString of a natural number, en-US: groups of
\* three digits separated by "," (code 44)
RECURSIVE toLocaleString(_)
toLocaleString(n) ==
    IF n < 1000 THEN numToString(n)
    ELSE toLocaleString(n \div 1000) \o <<44>> \o padStart(numToString(n % 1000), 3)

TemplateString(head, name, middle, amount) ==
    [head |-> head, name |-> name, middle |-> middle, amount |-> amount]

\* ""
EmptyString == TemplateString("", "", "", <<>>)

conditionToString(condition) ==
    IF condition.tag = "cashflow" THEN EmptyString
    ELSE CASE condition.type = "networth-is-above" ->
                TemplateString("When net worth > $", "", "",
                               toLocaleString(condition.amount))
           [] condition.type = "event-happened" ->
                TemplateString("After \"", condition.eventName, "\" happens", <<>>)
           [] condition.type = "income-is-above" ->
                TemplateString("When \"", condition.eventName, "\" >= $",
                               toLocaleString(condition.amount))
           [] OTHER -> EmptyString

\* event.unlockedBy.filter((c) => c.tag === "balance") keeping every condition
balanceConditionsAnyTag(event) == event.unlockedBy

balanceConditions(event) ==
    SelectSeq(event.unlockedBy, LAMBDA c : c.tag = "balance")

\* what Array.prototype.find returns when no element matches
NoCondition == Condition("", "undefined", "", 0, NoDate, NoDate)

\* eventHappenedCondition looking at the first balance condition alone
eventHappenedConditionAtHead(event) ==
    LET conditions == balanceConditions(event)
    IN  IF conditions # <<>> /\ conditions[1].type = "event-happened"
        THEN conditions[1] ELSE NoCondition

\* eventHappenedCondition finding only a condition that names an event of
\* the scenario
eventHappenedConditionResolved(event) ==
    LET conditions == balanceConditions(event)
        found == {i \in 1..Len(conditions) :
                    /\ conditions[i].type = "event-happened"
                    /\ conditions[i].eventName \in eventNames(scenario)}
    IN  IF found = {} THEN NoCondition
        ELSE conditions[CHOOSE i \in found : \A j \in found : i <= j]

\* balanceConditions.find((c) => c.type === "event-happened")
eventHappenedCondition(event) ==
    LET conditions == balanceConditions(event)
        found == {i \in 1..Len(conditions) : conditions[i].type = "event-happened"}
    IN  IF found = {} THEN NoCondition
        ELSE conditions[CHOOSE i \in found : \A j \in found : i <= j]

\* firedAt undefined
NoKey == <<>>

\* some event of the entry carries the name
someNamed(events, name) == \E j \in 1..Len(events) : events[j].name = name

\* firedAtOf without the break: the last month in which the event fired
firedAtOfLast(event, entries) ==
    LET found == {i \in 1..Len(entries) :
                    someNamed(entries[i].value.events, event.name)}
    IN  IF found = {} THEN NoKey
        ELSE entries[CHOOSE i \in found : \A j \in found : i >= j].key

\* the key of the first entry of Object.entries(result.cashflow) in which
\* the event fired
firedAtOf(event, entries) ==
    LET found == {i \in 1..Len(entries) :
                    someNamed(entries[i].value.events, event.name)}
    IN  IF found = {} THEN NoKey
        ELSE entries[CHOOSE i \in found : \A j \in found : i <= j].key

\* SelectSeq on the images of a sequence
mapConditions(conditions) ==
    [i \in 1..Len(conditions) |-> conditionToString(conditions[i])]

\* the body of the categorizing loop, triggered events that never fired
\* being left out
categorizeEventIfFired(acc, event, res) ==
    IF balanceConditions(event) = <<>>
    THEN [acc EXCEPT !.independentEvents = Append(@, event)]
    ELSE IF eventHappenedCondition(event) # NoCondition
    THEN IF firedAtOf(event, res.cashflow) = NoKey THEN acc
         ELSE [acc EXCEPT !.triggeredEvents =
                 Append(@, [event |-> event,
                            triggerEvent |-> eventHappenedCondition(event).eventName,
                            firedAt |-> firedAtOf(event, res.cashflow)])]
    ELSE [acc EXCEPT !.conditionalEvents =
            Append(@, [event |-> event,
                       conditions |->
                           SelectSeq(mapConditions(balanceConditions(event)),
                                     LAMBDA str : str # EmptyString)])]

\* the body of the categorizing loop
categorizeEvent(acc, event, res) ==
    IF balanceConditions(event) = <<>>
    THEN [acc EXCEPT !.independentEvents = Append(@, event)]
    ELSE IF eventHappenedCondition(event) # NoCondition
    THEN [acc EXCEPT !.triggeredEvents =
            Append(@, [event |-> event,
                       triggerEvent |-> eventHappenedCondition(event).eventName,
                       firedAt |-> firedAtOf(event, res.cashflow)])]
    ELSE [acc EXCEPT !.conditionalEvents =
            Append(@, [event |-> event,
                       conditions |->
                           SelectSeq(mapConditions(balanceConditions(event)),
                                     LAMBDA str : str # EmptyString)])]

RECURSIVE categorize(_, _, _)
categorize(events, res, acc) ==
    IF events = <<>> THEN acc
    ELSE categorize(Tail(events), res, categorizeEvent(acc, Head(events), res))

\* Object.keys of a record, in insertion order
objectKeys(rec) == [i \in 1..Len(rec) |-> rec[i].key]

\* strLess with the comparison of the code units the other way round
RECURSIVE strLessReversed(_, _)
strLessReversed(a, b) ==
    IF b = <<>> THEN FALSE
    ELSE IF a = <<>> THEN TRUE
    ELSE IF Head(a) # Head(b) THEN Head(a) > Head(b)
    ELSE strLessReversed(Tail(a), Tail(b))

\* a < b for two strings: the order of their UTF-16 code units, which
\* Array.prototype.sort uses by default
RECURSIVE strLess(_, _)
strLess(a, b) ==
    IF b = <<>> THEN FALSE
    ELSE IF a = <<>> THEN TRUE
    ELSE IF Head(a) # Head(b) THEN Head(a) < Head(b)
    ELSE strLess(Tail(a), Tail(b))

RECURSIVE insertKey(_, _)
insertKey(sorted, key) ==
    IF sorted = <<>> THEN <<key>>
    ELSE IF strLess(key, Head(sorted)) THEN <<key>> \o sorted
    ELSE <<Head(sorted)>> \o insertKey(Tail(sorted), key)

\* Object.keys(result.cashflow).sort()
RECURSIVE sortKeys(_)
sortKeys(keys) ==
    IF keys = <<>> THEN <<>>
    ELSE insertKey(sortKeys(SubSeq(keys, 1, Len(keys) - 1)), keys[Len(keys)])

\* what Array.prototype.find returns when no triggered entry matches
NoTrigger == [event |-> ConstructionError, triggerEvent |-> "", firedAt |-> NoKey]

\* triggeredEvents.find((t) => t.event.name === event.name)
findTrigger(triggeredEvents, event) ==
    LET found == {i \in 1..Len(triggeredEvents) :
                    triggeredEvents[i].event.name = event.name}
    IN  IF found = {} THEN NoTrigger
        ELSE triggeredEvents[CHOOSE i \in found : \A j \in found : i <= j]

\* startingEventsOf without the test on the trigger: every fired event of
\* the month is a starting event
startingEventsOfEvery(events, triggeredEvents) ==
    [i \in 1..Len(events) |->
        [event |-> events[i], amount |-> signedAmount(events[i])]]

\* the starting events of a month: the fired events no triggered entry names
startingEventsOf(events, triggeredEvents) ==
    LET kept == SelectSeq(events,
                          LAMBDA e : findTrigger(triggeredEvents, e) = NoTrigger)
    IN  [i \in 1..Len(kept) |->
            [event |-> kept[i], amount |-> signedAmount(kept[i])]]

\* the triggered events of a month, each with its recorded trigger
triggeredByOf(events, triggeredEvents) ==
    LET kept == SelectSeq(events,
                          LAMBDA e : findTrigger(triggeredEvents, e) # NoTrigger)
    IN  [i \in 1..Len(kept) |->
            [event |-> kept[i],
             triggerEvent |-> findTrigger(triggeredEvents, kept[i]).triggerEvent]]

\* the loop over the sorted months that builds the event flow
RECURSIVE buildEventFlow(_, _, _)
buildEventFlow(months, entries, triggeredEvents) ==
    IF months = <<>> THEN <<>>
    ELSE LET monthKey == Head(months)
             cashflowData == get(entries, monthKey)
             startingEvents == startingEventsOf(cashflowData.events, triggeredEvents)
             triggeredBy == triggeredByOf(cashflowData.events, triggeredEvents)
             rest == buildEventFlow(Tail(months), entries, triggeredEvents)
         IN  IF cashflowData.events = <<>> THEN rest
             ELSE IF startingEvents # <<>> \/ triggeredBy # <<>>
             THEN << [monthKey |-> monthKey, startingEvents |-> startingEvents,
                      triggeredBy |-> triggeredBy] >> \o rest
             ELSE rest

analyzeEventDependencies(events, res) ==
    LET lists == categorize(events, res, NoAnalysis)
    IN  [lists EXCEPT !.eventFlow =
            buildEventFlow(sortKeys(objectKeys(res.cashflow)), res.cashflow,
                           lists.triggeredEvents)]

\* the client analyses the scenario it simulated and the result it got
Analyze ==
    /\ pc = "done"
    /\ analysis' = analyzeEventDependencies(scenario, result)
    /\ pc' = "analysed"
    /\ UNCHANGED <<scenario, startDate, endDate, initialBalance, cursor,
                   running, happened, balance, cashflow, portfolioAssets,
                   growthRate, dividendYield, assetValues, cashBalance,
                   assetBalance, totalBalance, pending, previous, runs,
                   timeline, offset>>
    /\ UNCHANGED <<fullScenario, enabledEventNames, toggled, positions>>

-----------------------------------------------------------------------------
(* Inputs of the analysis model: scenarios of up to MaxEvents + 1 events of *)
(* every class, simulated over four months across the turn of the year.     *)

AnalysisStart == ld(BaseYear, 11, 1)

AnalysisEnd == ld(BaseYear + 1, 2, 1)

\* December and January
turnOfYear == dateInRange(ld(BaseYear, 12, 1), ld(BaseYear + 1, 1, 31))

AnalysisBodies ==
    { <<[type |-> "income", amount |-> 2000,
         recurrence |-> Recurrence("monthly", AnalysisStart, NoDate)], <<>>>>,
      <<[type |-> "expense", amount |-> 500,
         recurrence |-> Recurrence("monthly", ld(BaseYear, 12, 1), ld(BaseYear + 1, 1, 31))],
        <<turnOfYear>>>>,
      <<[type |-> "expense", amount |-> 4000,
         recurrence |-> Recurrence("once", ld(BaseYear + 1, 1, 15), NoDate)],
        <<turnOfYear, networthIsAbove(Names[1], 4000)>>>>,
      <<[type |-> "expense", amount |-> 500,
         recurrence |-> Recurrence("monthly", ld(BaseYear, 12, 1), ld(BaseYear + 1, 1, 31))],
        <<incomeIsAbove(Names[1], 1000)>>>>,
      <<[type |-> "expense", amount |-> 500,
         recurrence |-> Recurrence("monthly", AnalysisStart, NoDate)],
        <<eventHappened(Names[1])>>>>,
      <<[type |-> "expense", amount |-> 4000,
         recurrence |-> Recurrence("once", ld(BaseYear + 1, 1, 15), NoDate)],
        <<eventHappened(Names[2])>>>>,
      <<[type |-> "expense", amount |-> 500,
         recurrence |-> Recurrence("monthly", AnalysisStart, NoDate)],
        <<eventHappened(Ghost)>>>>,
      <<[type |-> "expense", amount |-> 500,
         recurrence |-> Recurrence("monthly", ld(BaseYear, 12, 1), ld(BaseYear + 1, 1, 31))],
        <<networthIsAbove(Names[1], 2000), eventHappened(Names[2]),
          eventHappened(Names[1])>>>>,
      <<[type |-> "expense", amount |-> 300,
         recurrence |-> Recurrence("monthly", AnalysisStart, NoDate)],
        <<incomeIsAbove(Names[1], 1000), eventHappened(Names[1])>>>>,
      <<[type |-> "income", amount |-> 5000,
         recurrence |-> Recurrence("once", ld(BaseYear, 12, 15), NoDate)], <<>>>> }

InitAnalysis ==
    \E n \in 0..(MaxEvents + 1) :
        \E f \in [1..n -> AnalysisBodies] :
            runScenario(scenarioOf(f), AnalysisStart, AnalysisEnd, 0)

NextAnalysis == ProcessMonth \/ Return \/ Analyze

SpecAnalysis == InitAnalysis /\ [][NextAnalysis]_vars

\* the position of the event named `name` in the scenario (names are unique)
indexOf(name) == CHOOSE k \in 1..Len(scenario) : scenario[k].name = name

\* the events of the three lists of the analysis, list after list
classifiedEvents ==
    analysis.independentEvents
    \o [i \in 1..Len(analysis.conditionalEvents) |-> analysis.conditionalEvents[i].event]
    \o [i \in 1..Len(analysis.triggeredEvents) |-> analysis.triggeredEvents[i].event]

\* the events of a list stand in the order the scenario declares them in
keepsOrder(events) ==
    \A i, j \in 1..Len(events) :
        i < j => indexOf(events[i].name) < indexOf(events[j].name)

\* C17: the analysis lists every event of the scenario it is given exactly
\* once over independentEvents, conditionalEvents and triggeredEvents taken
\* together, and each of the three lists keeps the scenario's event order.
C17_EveryEventInExactlyOneList ==
    pc = "analysed" =>
    /\ Len(classifiedEvents) = Len(scenario)
    /\ \A k \in 1..Len(scenario) :
          Cardinality({i \in 1..Len(classifiedEvents) :
                          classifiedEvents[i] = scenario[k]}) = 1
    /\ keepsOrder(analysis.independentEvents)
    /\ keepsOrder([i \in 1..Len(analysis.conditionalEvents) |->
                      analysis.conditionalEvents[i].event])
    /\ keepsOrder([i \in 1..Len(analysis.triggeredEvents) |->
                      analysis.triggeredEvents[i].event])

\* the first and the third event are independent, the second is triggered
\* by a name no event carries and never fires
C17_Witness ==
    /\ pc = "analysed"
    /\ Len(scenario) = 3
    /\ analysis.independentEvents = <<scenario[1], scenario[3]>>
    /\ analysis.conditionalEvents = <<>>
    /\ Len(analysis.triggeredEvents) = 1
    /\ analysis.triggeredEvents[1].event = scenario[2]
    /\ analysis.triggeredEvents[1].triggerEvent = Ghost
    /\ analysis.triggeredEvents[1].firedAt = NoKey

\* the event is one of independentEvents
isIndependent(event) ==
    \E i \in 1..Len(analysis.independentEvents) :
        analysis.independentEvents[i] = event

\* C18: an event is classified as independent iff no condition of its
\* unlockedBy list is balance-tagged; an event whose conditions are all
\* date-is or date-in-range is independent.
C18_IndependentIffNoBalanceCondition ==
    pc = "analysed" =>
    \A k \in 1..Len(scenario) :
        /\ isIndependent(scenario[k]) <=>
              \A n \in 1..Len(scenario[k].unlockedBy) :
                  scenario[k].unlockedBy[n].tag # "balance"
        /\ (\A n \in 1..Len(scenario[k].unlockedBy) :
                scenario[k].unlockedBy[n].type \in {"date-is", "date-in-range"})
           => isIndependent(scenario[k])

\* an event gated by a date range alone is independent, one gated by the
\* same date range and a net worth is not, one without conditions is
C18_Witness ==
    /\ pc = "analysed"
    /\ Len(scenario) = 3
    /\ scenario[1].unlockedBy = <<turnOfYear>>
    /\ scenario[2].unlockedBy = <<turnOfYear, networthIsAbove(Names[1], 4000)>>
    /\ scenario[3].unlockedBy = <<>>
    /\ isIndependent(scenario[1])
    /\ ~isIndependent(scenario[2])
    /\ isIndependent(scenario[3])
    /\ Len(analysis.conditionalEvents) = 1

\* C19: for every event classified as triggered, firedAt is the month-key
\* of the earliest month of the result in which the event is recorded as
\* fired, and firedAt is absent iff the event is recorded in no month.
C19_FiredAtIsFirstFiringMonth ==
    pc = "analysed" =>
    \A t \in 1..Len(analysis.triggeredEvents) :
        LET months == {i \in 1..Len(cashflow) :
                          firedIn(i, analysis.triggeredEvents[t].event.name)}
        IN  /\ analysis.triggeredEvents[t].firedAt = NoKey <=> months = {}
            /\ months # {} =>
                  \E i \in months :
                      /\ \A j \in months : i <= j
                      /\ analysis.triggeredEvents[t].firedAt = keyOf(monthAt(i))

\* B, triggered by A, fires from 2025-12 to the end of the range and has
\* firedAt 2025-12; C, triggered by a name no event carries, has none
C19_Witness ==
    /\ pc = "analysed"
    /\ Len(scenario) = 3
    /\ Len(analysis.triggeredEvents) = 2
    /\ analysis.triggeredEvents[1].event.name = Names[2]
    /\ analysis.triggeredEvents[1].triggerEvent = Names[1]
    /\ analysis.triggeredEvents[1].firedAt = <<50, 48, 50, 53, 45, 49, 50>>
    /\ ~firedIn(1, Names[2])
    /\ firedIn(2, Names[2])
    /\ firedIn(3, Names[2])
    /\ firedIn(4, Names[2])
    /\ analysis.triggeredEvents[2].firedAt = NoKey
    /\ \A i \in 1..Len(cashflow) : ~firedIn(i, Names[3])

\* the months since year 0 a month-key "YYYY-MM" stands for
keyMonths(key) ==
    ((key[1] - 48) * 1000 + (key[2] - 48) * 100 + (key[3] - 48) * 10
        + (key[4] - 48)) * 12
    + ((key[6] - 48) * 10 + (key[7] - 48)) - 1

\* C20: the event flow holds exactly one entry for each month of the result
\* in which at least one event fired, none for a month in which none fired
\* and none for any other key, and its entries stand in strictly increasing
\* chronological order of their month-keys.
C20_EventFlowOneEntryPerFiringMonth ==
    pc = "analysed" =>
    /\ \A i \in 1..Len(cashflow) :
          Cardinality({j \in 1..Len(analysis.eventFlow) :
                          analysis.eventFlow[j].monthKey = cashflow[i].key})
          = (IF cashflow[i].value.events = <<>> THEN 0 ELSE 1)
    /\ \A j \in 1..Len(analysis.eventFlow) :
          \E i \in 1..Len(cashflow) :
              analysis.eventFlow[j].monthKey = cashflow[i].key
    /\ \A j, k \in 1..Len(analysis.eventFlow) :
          j < k => keyMonths(analysis.eventFlow[j].monthKey)
                   < keyMonths(analysis.eventFlow[k].monthKey)

\* nothing fires in 2025-11 and in 2026-02: the flow has the two entries
\* 2025-12 and 2026-01, in that order
C20_Witness ==
    /\ pc = "analysed"
    /\ Len(cashflow) = 4
    /\ cashflow[1].value.events = <<>>
    /\ cashflow[2].value.events # <<>>
    /\ cashflow[3].value.events # <<>>
    /\ cashflow[4].value.events = <<>>
    /\ Len(analysis.eventFlow) = 2
    /\ analysis.eventFlow[1].monthKey = <<50, 48, 50, 53, 45, 49, 50>>
    /\ analysis.eventFlow[2].monthKey = <<50, 48, 50, 54, 45, 48, 49>>
    /\ analysis.eventFlow[2].triggeredBy # <<>>
    /\ analysis.eventFlow[2].startingEvents # <<>>

\* the number of items of a list of the event flow that hold the event
timesListed(items, event) ==
    Cardinality({i \in 1..Len(items) : items[i].event = event})

\* the event is one of triggeredEvents
isTriggered(event) ==
    \E t \in 1..Len(analysis.triggeredEvents) :
        analysis.triggeredEvents[t].event = event

\* the trigger-event name the analysis records for a triggered event
recordedTrigger(event) ==
    analysis.triggeredEvents[
        CHOOSE t \in 1..Len(analysis.triggeredEvents) :
            analysis.triggeredEvents[t].event = event].triggerEvent

\* C21: in each event-flow entry every event fired in that month appears
\* exactly once: in triggeredBy, with its recorded trigger-event name, iff it
\* is classified as triggered, otherwise in startingEvents with its signed
\* amount (+amount for an income, -amount for an expense); no event appears
\* in both lists and none that did not fire in that month appears.
C21_EventFlowPartitionsFiredEvents ==
    pc = "analysed" =>
    \A j \in 1..Len(analysis.eventFlow) :
        LET entry == analysis.eventFlow[j]
            fired == get(cashflow, entry.monthKey).events
        IN  /\ \A k \in 1..Len(fired) :
                  IF isTriggered(fired[k])
                  THEN /\ timesListed(entry.triggeredBy, fired[k]) = 1
                       /\ timesListed(entry.startingEvents, fired[k]) = 0
                       /\ \A i \in 1..Len(entry.triggeredBy) :
                             entry.triggeredBy[i].event = fired[k] =>
                                 entry.triggeredBy[i].triggerEvent
                                     = recordedTrigger(fired[k])
                  ELSE /\ timesListed(entry.startingEvents, fired[k]) = 1
                       /\ timesListed(entry.triggeredBy, fired[k]) = 0
                       /\ \A i \in 1..Len(entry.startingEvents) :
                             entry.startingEvents[i].event = fired[k] =>
                                 entry.startingEvents[i].amount
                                     = (IF fired[k].type = "income"
                                        THEN fired[k].amount
                                        ELSE 0 - fired[k].amount)
            /\ \A i \in 1..Len(entry.startingEvents) :
                  \E k \in 1..Len(fired) : fired[k] = entry.startingEvents[i].event
            /\ \A i \in 1..Len(entry.triggeredBy) :
                  \E k \in 1..Len(fired) : fired[k] = entry.triggeredBy[i].event

\* in 2025-12 the income A and the expense C start and B, triggered by A,
\* is listed under its trigger; in 2025-11 A alone fired and alone is listed
C21_Witness ==
    /\ pc = "analysed"
    /\ Len(scenario) = 3
    /\ Len(analysis.eventFlow) = 4
    /\ analysis.eventFlow[1].startingEvents
          = << [event |-> scenario[1], amount |-> 2000] >>
    /\ analysis.eventFlow[1].triggeredBy = <<>>
    /\ analysis.eventFlow[2].monthKey = <<50, 48, 50, 53, 45, 49, 50>>
    /\ analysis.eventFlow[2].startingEvents
          = << [event |-> scenario[1], amount |-> 2000],
               [event |-> scenario[3], amount |-> 0 - 500] >>
    /\ analysis.eventFlow[2].triggeredBy
          = << [event |-> scenario[2], triggerEvent |-> Names[1]] >>

\* the first event-happened condition of the event names no event of the
\* scenario
triggerIsDangling(event) ==
    \E n \in 1..Len(event.unlockedBy) :
        /\ event.unlockedBy[n].type = "event-happened"
        /\ event.unlockedBy[n].eventName \notin eventNames(scenario)
        /\ \A m \in 1..(n - 1) : event.unlockedBy[m].type # "event-happened"

\* the name the first event-happened condition of the event refers to
triggerNameOf(event) ==
    event.unlockedBy[CHOOSE n \in 1..Len(event.unlockedBy) :
        /\ event.unlockedBy[n].type = "event-happened"
        /\ \A m \in 1..(n - 1) : event.unlockedBy[m].type # "event-happened"
    ].eventName

\* C22: for an event whose event-happened condition names an event absent
\* from the scenario the analysis is made all the same; it lists the event
\* in triggeredEvents with triggerEvent equal to the dangling name, and the
\* event appears in no entry of the event flow.
C22_DanglingTriggerIsListedNeverFlows ==
    pc = "analysed" =>
          \A k \in 1..Len(scenario) :
              triggerIsDangling(scenario[k]) =>
                  /\ \E t \in 1..Len(analysis.triggeredEvents) :
                        /\ analysis.triggeredEvents[t].event = scenario[k]
                        /\ analysis.triggeredEvents[t].triggerEvent
                              = triggerNameOf(scenario[k])
                  /\ \A j \in 1..Len(analysis.eventFlow) :
                        /\ timesListed(analysis.eventFlow[j].startingEvents,
                                       scenario[k]) = 0
                        /\ timesListed(analysis.eventFlow[j].triggeredBy,
                                       scenario[k]) = 0

\* B is gated by event-happened("Ghost"): it is listed as triggered by
\* Ghost, without firedAt, while A, in the same months, fills the flow
C22_Witness ==
    /\ pc = "analysed"
    /\ Len(scenario) = 2
    /\ scenario[2].unlockedBy = <<eventHappened(Ghost)>>
    /\ analysis.triggeredEvents
          = << [event |-> scenario[2], triggerEvent |-> Ghost, firedAt |-> NoKey] >>
    /\ Len(analysis.eventFlow) = 4
    /\ \A j \in 1..4 :
          /\ analysis.eventFlow[j].triggeredBy = <<>>
          /\ analysis.eventFlow[j].startingEvents
                = << [event |-> scenario[1], amount |-> 2000] >>

\* the months of the result in which the event named `name` fired
firingMonths(name) == {i \in 1..Len(cashflow) : firedIn(i, name)}

\* C30: for every event T gated by event-happened(X), every month in which
\* T fires, and so its first, comes strictly after the first month in which
\* X fires, and T never fires when X never does; the firedAt the analysis
\* records for T is strictly later than X's first firing month.
C30_TriggeredFiresStrictlyAfterTrigger ==
    pc = "analysed" =>
    /\ \A k \in 1..Len(scenario) :
          \A n \in 1..Len(scenario[k].unlockedBy) :
              scenario[k].unlockedBy[n].type = "event-happened" =>
                  /\ \A i \in firingMonths(scenario[k].name) :
                        \E j \in firingMonths(scenario[k].unlockedBy[n].eventName) :
                            j < i
                  /\ firingMonths(scenario[k].unlockedBy[n].eventName) = {}
                        => firingMonths(scenario[k].name) = {}
    /\ \A t \in 1..Len(analysis.triggeredEvents) :
          analysis.triggeredEvents[t].firedAt # NoKey =>
              \E j \in firingMonths(analysis.triggeredEvents[t].triggerEvent) :
                  keyMonths(cashflow[j].key)
                      < keyMonths(analysis.triggeredEvents[t].firedAt)

\* A is bought in 2025-12; B, gated by event-happened(A) and active from
\* 2025-11 on, does not fire in 2025-12 and first fires in 2026-01
C30_Witness ==
    /\ pc = "analysed"
    /\ Len(scenario) = 2
    /\ scenario[1].recurrence = Recurrence("once", ld(BaseYear, 12, 15), NoDate)
    /\ scenario[2].recurrence = Recurrence("monthly", AnalysisStart, NoDate)
    /\ scenario[2].unlockedBy = <<eventHappened(Names[1])>>
    /\ firingMonths(Names[1]) = {2}
    /\ firingMonths(Names[2]) = {3, 4}
    /\ analysis.triggeredEvents[1].firedAt = <<50, 48, 50, 54, 45, 48, 49>>

-----------------------------------------------------------------------------
(* Timeline transformer: timeline-transformer.ts.  A Map is the sequence of *)
(* its [key, value] entries in insertion order; an optional string is the   *)
(* empty sequence (undefined) or the sequence of the one string.            *)

\* triggeredBy: undefined
Undefined == <<>>

TimelineEvent(event, occurrences, triggeredBy, children) ==
    [event |-> event, occurrences |-> occurrences, triggeredBy |-> triggeredBy,
     children |-> children]

\* String.prototype.split for a one-character separator
RECURSIVE split(_, _)
split(s, sep) ==
    IF \A i \in 1..Len(s) : s[i] # sep THEN <<s>>
    ELSE LET at == CHOOSE i \in 1..Len(s) :
                      s[i] = sep /\ \A j \in 1..(i - 1) : s[j] # sep
         IN  <<SubSeq(s, 1, at - 1)>> \o split(SubSeq(s, at + 1, Len(s)), sep)

\* parseInt of a string of decimal digits
RECURSIVE parseInt(_)
parseInt(s) ==
    IF s = <<>> THEN 0
    ELSE parseInt(SubSeq(s, 1, Len(s) - 1)) * 10 + (s[Len(s)] - 48)

\* Map.prototype.values, in insertion order
values(map) == [i \in 1..Len(map) |-> map[i].value]

\* the map of event names to their trigger parents
RECURSIVE triggerMapOf(_, _)
triggerMapOf(triggeredEvents, map) ==
    IF triggeredEvents = <<>> THEN map
    ELSE triggerMapOf(Tail(triggeredEvents),
                      put(map, Head(triggeredEvents).event.name,
                          Head(triggeredEvents).triggerEvent))

\* triggerMap.get(eventName)
triggerOf(triggerMap, eventName) ==
    IF hasKey(triggerMap, eventName) THEN <<get(triggerMap, eventName)>>
    ELSE Undefined

\* addOccurrence pushing an occurrence only onto a node it has just made
addFirstOccurrence(eventsInYear, event, triggeredBy, monthKey, month, amount) ==
    IF hasKey(eventsInYear, event.name) THEN eventsInYear
    ELSE put(eventsInYear, event.name,
             TimelineEvent(event,
                           << [monthKey |-> monthKey, month |-> month,
                               amount |-> amount] >>,
                           triggeredBy, <<>>))

\* the node of the event is made if the year has none, and the occurrence
\* is pushed onto it
addOccurrence(eventsInYear, event, triggeredBy, monthKey, month, amount) ==
    LET withNode ==
            IF hasKey(eventsInYear, event.name) THEN eventsInYear
            ELSE put(eventsInYear, event.name,
                     TimelineEvent(event, <<>>, triggeredBy, <<>>))
    IN  put(withNode, event.name,
            [get(withNode, event.name) EXCEPT !.occurrences =
                Append(@, [monthKey |-> monthKey, month |-> month,
                           amount |-> amount])])

\* monthData.startingEvents.forEach
RECURSIVE processStartingEvents(_, _, _, _, _)
processStartingEvents(items, eventsInYear, triggerMap, monthKey, month) ==
    IF items = <<>> THEN eventsInYear
    ELSE processStartingEvents(
             Tail(items),
             addOccurrence(eventsInYear, Head(items).event,
                           triggerOf(triggerMap, Head(items).event.name),
                           monthKey, month, Head(items).amount),
             triggerMap, monthKey, month)

\* monthData.triggeredBy.forEach
RECURSIVE processTriggeredEvents(_, _, _, _)
processTriggeredEvents(items, eventsInYear, monthKey, month) ==
    IF items = <<>> THEN eventsInYear
    ELSE processTriggeredEvents(
             Tail(items),
             addOccurrence(eventsInYear, Head(items).event,
                           <<Head(items).triggerEvent>>, monthKey, month,
                           IF Head(items).event.type = "income"
                           THEN Head(items).event.amount
                           ELSE 0 - Head(items).event.amount),
             monthKey, month)

\* eventFlow.forEach: the events of every month are grouped by year
RECURSIVE groupByYear(_, _, _)
groupByYear(eventFlow, triggerMap, yearMap) ==
    IF eventFlow = <<>> THEN yearMap
    ELSE LET monthData == Head(eventFlow)
             parts == split(monthData.monthKey, 45)
             year  == parseInt(parts[1])
             month == parseInt(parts[2])
             withYear == IF hasKey(yearMap, year) THEN yearMap
                         ELSE put(yearMap, year, <<>>)
             eventsInYear ==
                 processTriggeredEvents(
                     monthData.triggeredBy,
                     processStartingEvents(monthData.startingEvents,
                                           get(withYear, year), triggerMap,
                                           monthData.monthKey, month),
                     monthData.monthKey, month)
         IN  groupByYear(Tail(eventFlow), triggerMap,
                         put(withYear, year, eventsInYear))

\* if (timelineEvent.triggeredBy): neither undefined nor the empty string
hasTrigger(timelineEvent) ==
    timelineEvent.triggeredBy # Undefined /\ timelineEvent.triggeredBy[1] # ""

\* the first loop over the events of a year: the children, by parent name
RECURSIVE childEventsMapOf(_, _)
childEventsMapOf(events, map) ==
    IF events = <<>> THEN map
    ELSE LET timelineEvent == Head(events)
             parent == timelineEvent.triggeredBy[1]
         IN  childEventsMapOf(
                 Tail(events),
                 IF hasTrigger(timelineEvent)
                 THEN put(map, parent,
                          Append(IF hasKey(map, parent) THEN get(map, parent)
                                 ELSE <<>>,
                                 timelineEvent))
                 ELSE map)

\* topLevelEvents.forEach: the children are attached to their parents
attachChildren(topLevelEvents, childEventsMap) ==
    [i \in 1..Len(topLevelEvents) |->
        [topLevelEvents[i] EXCEPT !.children =
            IF hasKey(childEventsMap, topLevelEvents[i].event.name)
            THEN get(childEventsMap, topLevelEvents[i].event.name)
            ELSE <<>>]]

\* addOrphans promoting the children of every entry, their parent among the
\* top-level events or not
RECURSIVE addOrphansAlways(_, _)
addOrphansAlways(entries, topLevelEvents) ==
    IF entries = <<>> THEN topLevelEvents
    ELSE addOrphansAlways(Tail(entries), topLevelEvents \o Head(entries).value)

\* addOrphans promoting no children at all
addOrphansNever(entries, topLevelEvents) == topLevelEvents

\* childEventsMap.forEach: the children whose parent is not among the
\* top-level events, as the list stands when their entry is visited, are
\* pushed onto it
RECURSIVE addOrphans(_, _)
addOrphans(entries, topLevelEvents) ==
    IF entries = <<>> THEN topLevelEvents
    ELSE LET parentName == Head(entries).key
             hasParentInYear ==
                 \E i \in 1..Len(topLevelEvents) :
                     topLevelEvents[i].event.name = parentName
         IN  addOrphans(Tail(entries),
                        IF hasParentInYear THEN topLevelEvents
                        ELSE topLevelEvents \o Head(entries).value)

\* the occurrence amounts of the events of a year, one list
RECURSIVE amountsOf(_)
amountsOf(events) ==
    IF events = <<>> THEN <<>>
    ELSE [i \in 1..Len(Head(events).occurrences) |->
             Head(events).occurrences[i].amount] \o amountsOf(Tail(events))

RECURSIVE totalIncomeOf(_)
totalIncomeOf(amounts) ==
    IF amounts = <<>> THEN 0
    ELSE (IF Head(amounts) > 0 THEN Head(amounts) ELSE 0)
         + totalIncomeOf(Tail(amounts))

\* Math.abs
abs(n) == IF n < 0 THEN 0 - n ELSE n

\* totalExpenseOf adding the amounts without Math.abs
RECURSIVE totalExpenseOfSigned(_)
totalExpenseOfSigned(amounts) ==
    IF amounts = <<>> THEN 0
    ELSE (IF Head(amounts) > 0 THEN 0 ELSE Head(amounts))
         + totalExpenseOfSigned(Tail(amounts))

RECURSIVE totalExpenseOf(_)
totalExpenseOf(amounts) ==
    IF amounts = <<>> THEN 0
    ELSE (IF Head(amounts) > 0 THEN 0 ELSE abs(Head(amounts)))
         + totalExpenseOf(Tail(amounts))

\* the body of the loop over the years
timelineYearOf(year, eventsMap) ==
    LET events == values(eventsMap)
        childEventsMap == childEventsMapOf(events, <<>>)
        topLevelEvents ==
            addOrphans(childEventsMap,
                       attachChildren(SelectSeq(events, LAMBDA e : ~hasTrigger(e)),
                                      childEventsMap))
        totalIncome  == totalIncomeOf(amountsOf(events))
        totalExpense == totalExpenseOf(amountsOf(events))
    IN  [year |-> year, totalIncome |-> totalIncome,
         totalExpense |-> totalExpense,
         netCashflow |-> totalIncome - totalExpense, events |-> topLevelEvents]

\* Array.from(yearMap.entries()).sort((a, b) => a[0] - b[0])
RECURSIVE sortYears(_)
sortYears(entries) ==
    IF entries = <<>> THEN <<>>
    ELSE LET last == entries[Len(entries)]
             sorted == sortYears(SubSeq(entries, 1, Len(entries) - 1))
             before == SelectSeq(sorted, LAMBDA e : e.key - last.key <= 0)
             after  == SelectSeq(sorted, LAMBDA e : e.key - last.key > 0)
         IN  before \o <<last>> \o after

transformToTimelineData(given) ==
    LET triggerMap == triggerMapOf(given.triggeredEvents, <<>>)
        yearMap == groupByYear(given.eventFlow, triggerMap, <<>>)
        years == sortYears(yearMap)
    IN  [i \in 1..Len(years) |-> timelineYearOf(years[i].key, years[i].value)]

\* CompactEventTimeline transforms the analysis it is given
Transform ==
    /\ pc = "analysed"
    /\ timeline' = transformToTimelineData(analysis)
    /\ pc' = "transformed"
    /\ UNCHANGED <<scenario, startDate, endDate, initialBalance, cursor,
                   running, happened, balance, cashflow, portfolioAssets,
                   growthRate, dividendYield, assetValues, cashBalance,
                   assetBalance, totalBalance, pending, analysis, previous,
                   runs, offset>>
    /\ UNCHANGED <<fullScenario, enabledEventNames, toggled, positions>>

-----------------------------------------------------------------------------
(* Inputs of the timeline model: scenarios of up to MaxEvents + 1 events,   *)
(* with chains of triggers in either declared order, simulated over four    *)
(* months across the turn of the year.                                      *)

TimelineBodies ==
    { <<[type |-> "income", amount |-> 2000,
         recurrence |-> Recurrence("monthly", AnalysisStart, NoDate)], <<>>>>,
      <<[type |-> "income", amount |-> 5000,
         recurrence |-> Recurrence("once", ld(BaseYear, 11, 15), NoDate)], <<>>>>,
      <<[type |-> "expense", amount |-> 500,
         recurrence |-> Recurrence("monthly", AnalysisStart, NoDate)],
        <<eventHappened(Names[1])>>>>,
      <<[type |-> "expense", amount |-> 300,
         recurrence |-> Recurrence("monthly", AnalysisStart, NoDate)],
        <<eventHappened(Names[2])>>>>,
      <<[type |-> "income", amount |-> 300,
         recurrence |-> Recurrence("monthly", AnalysisStart, NoDate)],
        <<eventHappened(Names[3])>>>>,
      <<[type |-> "expense", amount |-> 500,
         recurrence |-> Recurrence("monthly", AnalysisStart, NoDate)],
        <<eventHappened(Ghost)>>>>,
      <<[type |-> "expense", amount |-> 0,
         recurrence |-> Recurrence("monthly", ld(BaseYear, 12, 1), ld(BaseYear + 1, 1, 31))],
        <<turnOfYear>>>>,
      <<[type |-> "expense", amount |-> 1000,
         recurrence |-> Recurrence("once", ld(BaseYear + 1, 1, 15), NoDate)],
        <<networthIsAbove(Names[1], 4000)>>>> }

InitTimeline ==
    \E n \in 0..(MaxEvents + 1) :
        \E f \in [1..n -> TimelineBodies] :
            runScenario(scenarioOf(f), AnalysisStart, AnalysisEnd, 0)

NextTimeline == ProcessMonth \/ Return \/ Analyze \/ Transform

SpecTimeline == InitTimeline /\ [][NextTimeline]_vars

\* the calendar year a month-key "YYYY-MM" belongs to
yearOfKey(key) == keyMonths(key) \div 12

\* the events with an occurrence in the event-flow entries of a year
flowEventsOf(year) ==
    UNION { {analysis.eventFlow[j].startingEvents[i].event :
                 i \in 1..Len(analysis.eventFlow[j].startingEvents)}
            \cup {analysis.eventFlow[j].triggeredBy[i].event :
                      i \in 1..Len(analysis.eventFlow[j].triggeredBy)} :
            j \in {k \in 1..Len(analysis.eventFlow) :
                      yearOfKey(analysis.eventFlow[k].monthKey) = year} }

\* the nodes of a forest: its roots and the nodes of their children
RECURSIVE nodesOf(_)
nodesOf(forest) ==
    IF forest = <<>> THEN {}
    ELSE {Head(forest)} \cup nodesOf(Head(forest).children)
         \cup nodesOf(Tail(forest))

\* the years of the event flow
flowYears ==
    {yearOfKey(analysis.eventFlow[j].monthKey) : j \in 1..Len(analysis.eventFlow)}

\* C23: the timeline drops no event: it has a year for every year of the
\* event flow, and every event with an occurrence in a year's event-flow
\* entries has a node in that year's forest, at top level or under a
\* parent, also when its trigger parent is itself a triggered event or did
\* not fire in that year.
C23_NoEventDropped ==
    pc = "transformed" =>
    /\ flowYears = {timeline[y].year : y \in 1..Len(timeline)}
    /\ \A y \in 1..Len(timeline) :
          \A event \in flowEventsOf(timeline[y].year) :
              \E node \in nodesOf(timeline[y].events) : node.event = event

\* the nodes of a forest that stand for the event named `name`
nodesNamed(forest, name) == {node \in nodesOf(forest) : node.event.name = name}

\* the node is one of the roots of the forest
isTopLevel(forest, node) == \E i \in 1..Len(forest) : forest[i] = node

\* the node is one of the children of the parent node
isChildOf(node, parent) ==
    \E i \in 1..Len(parent.children) : parent.children[i] = node

\* C24: within each year of the timeline a triggered event is a child of
\* its trigger event's node whenever the trigger event has a node in that
\* year, at whatever depth that node stands, and it is at top level only
\* when its trigger event has no node in that year.
C24_TriggeredEventUnderItsTrigger ==
    pc = "transformed" =>
    \A y \in 1..Len(timeline) :
        \A node \in nodesOf(timeline[y].events) :
            hasTrigger(node) =>
                /\ \A parent \in nodesNamed(timeline[y].events, node.triggeredBy[1]) :
                      isChildOf(node, parent)
                /\ isTopLevel(timeline[y].events, node) =>
                      nodesNamed(timeline[y].events, node.triggeredBy[1]) = {}

\* C25: a triggered event that fires in a year in which its trigger event
\* has no occurrence (the trigger fired in an earlier year, or its name is
\* unresolved) is a top-level node of that year and keeps the name of its
\* trigger in triggeredBy.
C25_OrphanIsPromotedToTopLevel ==
    pc = "transformed" =>
    \A y \in 1..Len(timeline) :
        \A event \in flowEventsOf(timeline[y].year) :
            (/\ isTriggered(event)
             /\ \A other \in flowEventsOf(timeline[y].year) :
                   other.name # recordedTrigger(event))
            => \E i \in 1..Len(timeline[y].events) :
                  /\ timeline[y].events[i].event = event
                  /\ timeline[y].events[i].triggeredBy = <<recordedTrigger(event)>>

\* A fires once, in 2025-11; B, triggered by A, fires from 2025-12 on: in
\* 2025 B is the child of A, in 2026 B stands at top level, triggeredBy "A"
C25_Witness ==
    /\ pc = "transformed"
    /\ Len(scenario) = 2
    /\ Len(timeline) = 2
    /\ timeline[1].year = BaseYear
    /\ Len(timeline[1].events) = 1
    /\ timeline[1].events[1].event = scenario[1]
    /\ Len(timeline[1].events[1].children) = 1
    /\ timeline[1].events[1].children[1].event = scenario[2]
    /\ timeline[2].year = BaseYear + 1
    /\ Len(timeline[2].events) = 1
    /\ timeline[2].events[1].event = scenario[2]
    /\ timeline[2].events[1].triggeredBy = <<Names[1]>>
    /\ Len(timeline[2].events[1].occurrences) = 2

\* the sum of a list of numbers
RECURSIVE sumOf(_)
sumOf(numbers) ==
    IF numbers = <<>> THEN 0 ELSE Head(numbers) + sumOf(Tail(numbers))

\* the sum of the positive numbers of a list
incomeIn(amounts) == sumOf(SelectSeq(amounts, LAMBDA a : a > 0))

\* the sum of the absolute values of the non-positive numbers of a list
expenseIn(amounts) == 0 - sumOf(SelectSeq(amounts, LAMBDA a : a <= 0))

\* the signed amounts the event flow records for a year, month after month
RECURSIVE flowAmountsOf(_, _)
flowAmountsOf(eventFlow, year) ==
    IF eventFlow = <<>> THEN <<>>
    ELSE (IF yearOfKey(Head(eventFlow).monthKey) = year
          THEN [i \in 1..Len(Head(eventFlow).startingEvents) |->
                   Head(eventFlow).startingEvents[i].amount]
               \o [i \in 1..Len(Head(eventFlow).triggeredBy) |->
                      IF Head(eventFlow).triggeredBy[i].event.type = "income"
                      THEN Head(eventFlow).triggeredBy[i].event.amount
                      ELSE 0 - Head(eventFlow).triggeredBy[i].event.amount]
          ELSE <<>>)
         \o flowAmountsOf(Tail(eventFlow), year)

\* the occurrence amounts of the nodes of a forest
RECURSIVE forestAmountsOf(_)
forestAmountsOf(forest) ==
    IF forest = <<>> THEN <<>>
    ELSE [i \in 1..Len(Head(forest).occurrences) |->
             Head(forest).occurrences[i].amount]
         \o forestAmountsOf(Head(forest).children)
         \o forestAmountsOf(Tail(forest))

\* the net cashflow of the months of a year in the simulation result
RECURSIVE resultNetOf(_, _)
resultNetOf(entries, year) ==
    IF entries = <<>> THEN 0
    ELSE (IF yearOfKey(Head(entries).key) = year
          THEN Head(entries).value.amount ELSE 0)
         + resultNetOf(Tail(entries), year)

\* the forest of the year has a node for every event of the year
holdsEveryEvent(yearData) ==
    \A event \in flowEventsOf(yearData.year) :
        \E node \in nodesOf(yearData.events) : node.event = event

firingMonthsIn(name, year) ==
    {i \in firingMonths(name) : yearOfKey(cashflow[i].key) = year}

\* C27: the occurrences of each node of the timeline are one entry per
\* month of the node's year in which the event fired, in chronological
\* order, each with the month number (1..12) of its month-key and the
\* event's signed amount; the occurrences of an event in another year are
\* on another node.
C27_OccurrencesAreTheFiringMonthsOfTheYear ==
    pc = "transformed" =>
    \A y \in 1..Len(timeline) :
        \A node \in nodesOf(timeline[y].events) :
            LET months == firingMonthsIn(node.event.name, timeline[y].year)
                occurrences == node.occurrences
            IN  /\ Len(occurrences) = Cardinality(months)
                /\ \A i \in months :
                      \E o \in 1..Len(occurrences) :
                          occurrences[o].monthKey = cashflow[i].key
                /\ \A o \in 1..Len(occurrences) :
                      /\ yearOfKey(occurrences[o].monthKey) = timeline[y].year
                      /\ occurrences[o].month
                            = (keyMonths(occurrences[o].monthKey) % 12) + 1
                      /\ occurrences[o].month \in 1..12
                      /\ occurrences[o].amount
                            = (IF node.event.type = "income"
                               THEN node.event.amount
                               ELSE 0 - node.event.amount)
                /\ \A o, p \in 1..Len(occurrences) :
                      o < p => keyMonths(occurrences[o].monthKey)
                               < keyMonths(occurrences[p].monthKey)

\* B, an expense of 500, fires in 2025-12, 2026-01 and 2026-02: its node of
\* 2025 holds month 12, its node of 2026 the months 1 and 2
C27_Witness ==
    /\ pc = "transformed"
    /\ Len(scenario) = 2
    /\ Len(timeline) = 2
    /\ Len(timeline[1].events) = 1
    /\ Len(timeline[1].events[1].children) = 1
    /\ timeline[1].events[1].children[1].event = scenario[2]
    /\ timeline[1].events[1].children[1].occurrences
          = << [monthKey |-> <<50, 48, 50, 53, 45, 49, 50>>, month |-> 12,
                amount |-> 0 - 500] >>
    /\ Len(timeline[2].events) = 1
    /\ timeline[2].events[1].event = scenario[2]
    /\ timeline[2].events[1].occurrences
          = << [monthKey |-> <<50, 48, 50, 54, 45, 48, 49>>, month |-> 1,
                amount |-> 0 - 500],
               [monthKey |-> <<50, 48, 50, 54, 45, 48, 50>>, month |-> 2,
                amount |-> 0 - 500] >>

\* the holdings that yield a dividend: not cash, and initialValue *
\* annualYield / 12 at least 1 (yields are percentages)
yieldingAssets(assets, annualYield) ==
    SelectSeq(assets, LAMBDA a : /\ a.category_id # "cash"
                                 /\ a.initialValue * annualYield >= 1200)

-----------------------------------------------------------------------------
(* Inputs of the calendar model: a date moved by addMonthsLD calls with     *)
(* any delta, forwards and backwards across year boundaries.                *)

\* largest number of months one addMonthsLD call adds or takes away
MaxDelta == 13

\* the dates the calls start from: first and last day of a month
DateOrigins == {ld(y, m, d) : y \in Years, m \in {1, 6, 12}, d \in {1, 31}}

InitDates ==
    \E d \in DateOrigins :
        /\ scenario = <<>>
        /\ startDate = d
        /\ endDate = d
        /\ initialBalance = 0
        /\ portfolioAssets = NoPortfolio
        /\ growthRate = 0
        /\ dividendYield = 0
        /\ cursor = d
        /\ running = 0
        /\ happened = {}
        /\ balance = <<>>
        /\ cashflow = <<>>
        /\ assetValues = initialAssetValues(NoPortfolio)
        /\ cashBalance = <<>>
        /\ assetBalance = <<>>
        /\ totalBalance = <<>>
        /\ firstCall
        /\ pc = "dates"

\* cursor = addMonthsLD(cursor, delta), the date staying within
\* 2 * MaxDelta months of the date the calls started from
AddMonths ==
    /\ pc = "dates"
    /\ \E delta \in (0 - MaxDelta)..MaxDelta :
          /\ offset + delta <= 2 * MaxDelta
          /\ offset + delta >= 0 - (2 * MaxDelta)
          /\ cursor' = addMonthsLD(cursor, delta)
          /\ offset' = offset + delta
    /\ UNCHANGED <<scenario, startDate, endDate, initialBalance, running,
                   happened, balance, cashflow, pc, portfolioAssets, growthRate,
                   dividendYield, assetValues, cashBalance, assetBalance,
                   totalBalance, pending, analysis, previous, runs, timeline>>
    /\ UNCHANGED <<fullScenario, enabledEventNames, toggled, positions>>

NextDates == AddMonths

SpecDates == InitDates /\ [][NextDates]_vars

\* C29: addMonthsLD(d, n), for n positive, zero or negative, returns a date
\* with d's day unchanged, a month in 1..12, and a month index year * 12 +
\* (month - 1) equal to d's month index plus n: the year is carried and
\* borrowed across year boundaries.
C29_AddMonthsKeepsDayAndMonthIndex ==
    [][AddMonths =>
          /\ cursor'.d = cursor.d
          /\ cursor'.m \in 1..12
          /\ (cursor'.y * 12 + (cursor'.m - 1))
                = (cursor.y * 12 + (cursor.m - 1)) + (offset' - offset)]_vars

\* thirteen months before January 31 of BaseYear: the year is borrowed
\* twice and the day 31 stays
C29_Witness ==
    /\ pc = "dates"
    /\ startDate = ld(BaseYear, 1, 31)
    /\ offset = 0 - 13
    /\ cursor = ld(BaseYear - 2, 12, 31)

-----------------------------------------------------------------------------
(* Cyclic trigger references.  The month loop is a plain loop of one call:  *)
(* once entered, each iteration and the return are taken.                   *)

SpecCycles ==
    InitTimeline /\ [][NextTimeline]_vars
    /\ WF_vars(ProcessMonth) /\ WF_vars(Return)

\* the names the event-happened conditions of the events named in `names`
\* refer to
triggerRefs(names) ==
    UNION { { scenario[k].unlockedBy[n].eventName :
                n \in {m \in 1..Len(scenario[k].unlockedBy) :
                          scenario[k].unlockedBy[m].type = "event-happened"} } :
            k \in {j \in 1..Len(scenario) : scenario[j].name \in names} }

\* the names reached from `names` along at most `steps` trigger references
RECURSIVE reachedFrom(_, _)
reachedFrom(names, steps) ==
    IF steps = 0 THEN names
    ELSE reachedFrom(names \cup triggerRefs(names), steps - 1)

\* the event's trigger references lead back to the event itself
onTriggerCycle(name) ==
    name \in reachedFrom(triggerRefs({name}), Len(scenario))

\* the result has one cashflow and one balance entry per month of the range
wellFormedResult ==
    /\ Len(cashflow) = monthCount
    /\ Len(balance) = monthCount
    /\ \A i \in 1..monthCount :
          /\ cashflow[i].key = keyOf(monthAt(i))
          /\ balance[i].key = keyOf(monthAt(i))
          /\ cashflow[i].value.amount = sumSigned(cashflow[i].value.events)

\* C31: when the trigger references of events form a cycle (A gated by
\* event-happened(B) and B by event-happened(A), or an event gated by
\* event-happened of itself), no event on the cycle fires in any month, and
\* the run still returns, with a result of one entry per month.
C31_EventsOnTriggerCycleNeverFire ==
    /\ [](\A k \in 1..Len(scenario) :
            onTriggerCycle(scenario[k].name)
                => firingMonths(scenario[k].name) = {})
    /\ ((\E k \in 1..Len(scenario) : onTriggerCycle(scenario[k].name))
            => <>(pc = "done" /\ wellFormedResult))

\* A is gated by B, B by C and C by A, each active in all four months; the
\* run returned four months in which nothing fired
C31_Witness ==
    /\ pc = "done"
    /\ Len(scenario) = 3
    /\ scenario[1].unlockedBy = <<eventHappened(Names[2])>>
    /\ scenario[2].unlockedBy = <<eventHappened(Names[3])>>
    /\ scenario[3].unlockedBy = <<eventHappened(Names[1])>>
    /\ \A k \in 1..3 : onTriggerCycle(scenario[k].name)
    /\ \A k \in 1..3 : \A i \in 1..4 :
          isEventActiveInMonth(monthAt(i), scenario[k])
    /\ Len(cashflow) = 4
    /\ \A i \in 1..4 : cashflow[i].value.events = <<>>

-----------------------------------------------------------------------------
(* The client's event toggles: scenario-planning-client.tsx and             *)
(* event-toggle-toolbar.tsx.  The client simulates and analyses the enabled *)
(* events of its full scenario; the toolbar shows a checkbox per event of   *)
(* the full scenario, and a change of a checkbox calls handleEventToggle.   *)
(* A recursion that never ends exhausts the call stack and throws a         *)
(* RangeError; StackLimit frames are more than any recursion that ends      *)
(* needs, as that one never enters the same event twice.                    *)

\* in the place of the set of names a call returns: the call exhausted the
\* call stack and threw
RangeError == {"RangeError: Maximum call stack size exceeded"}

\* frames of getDependentEvents the call stack holds
StackLimit == MaxEvents + 2

\* getDependentEvents entered as frame number `depth` of the recursion,
\* and its loop over tempAnalysis.triggeredEvents from the i-th entry on
RECURSIVE getDependentEventsAt(_, _, _)
RECURSIVE addDependents(_, _, _, _, _)
addDependents(eventName, tempAnalysis, i, dependents, depth) ==
    IF i > Len(tempAnalysis.triggeredEvents) THEN dependents
    ELSE LET triggered == tempAnalysis.triggeredEvents[i] IN
         IF triggered.triggerEvent = eventName
         THEN LET children ==
                      getDependentEventsAt(triggered.event.name, tempAnalysis,
                                           depth + 1)
              IN  IF children = RangeError THEN RangeError
                  ELSE addDependents(eventName, tempAnalysis, i + 1,
                                     dependents \cup {triggered.event.name}
                                         \cup children,
                                     depth)
         ELSE addDependents(eventName, tempAnalysis, i + 1, dependents, depth)

getDependentEventsAt(eventName, tempAnalysis, depth) ==
    IF depth > StackLimit THEN RangeError
    ELSE addDependents(eventName, tempAnalysis, 1, {}, depth)

getDependentEvents(eventName, tempAnalysis) ==
    getDependentEventsAt(eventName, tempAnalysis, 1)

\* fullScenario.events.filter((event) => enabledEventNames.has(event.name))
filteredEvents(enabled) == SelectSeq(fullScenario, LAMBDA e : e.name \in enabled)

\* setEnabledEventNames(newEnabled): the client renders again, and its memo
\* simulates the events now enabled from startDate on
setEnabledEventNames(newEnabled) ==
    /\ enabledEventNames' = newEnabled
    /\ scenario' = filteredEvents(newEnabled)
    /\ cursor' = startOfMonthLD(startDate)
    /\ running' = initialBalance
    /\ happened' = historyAtEntry(happened)
    /\ balance' = <<>>
    /\ cashflow' = <<>>
    /\ assetValues' = initialAssetValues(portfolioAssets)
    /\ cashBalance' = <<>>
    /\ assetBalance' = <<>>
    /\ totalBalance' = <<>>
    /\ pc' = "loop"

\* handleEventToggle; a RangeError out of getDependentEvents leaves the
\* handler before setEnabledEventNames
handleEventToggle(eventName, enabled) ==
    LET dependents == getDependentEvents(eventName, analysis)
        threw == ~enabled /\ dependents = RangeError
    IN  /\ toggled' = [eventName |-> eventName, enabled |-> enabled,
                       threw |-> threw]
        /\ IF threw
           THEN UNCHANGED <<enabledEventNames, scenario, cursor, running,
                            happened, balance, cashflow, assetValues,
                            cashBalance, assetBalance, totalBalance, pc>>
           ELSE setEnabledEventNames(
                    IF enabled THEN enabledEventNames \cup {eventName}
                    ELSE (enabledEventNames \ {eventName}) \ dependents)
        /\ UNCHANGED <<fullScenario, startDate, endDate, initialBalance,
                       portfolioAssets, growthRate, dividendYield, pending,
                       analysis, previous, runs, timeline, offset, positions>>

\* the toolbar's map of triggered events to their parents
toolbarTriggerMap == triggerMapOf(analysis.triggeredEvents, <<>>)

\* triggerMap.get(name), when there is a name and it is not empty
triggerParent(name) ==
    LET parent == triggerOf(toolbarTriggerMap, name)
    IN  IF parent # Undefined /\ parent[1] # "" THEN parent ELSE Undefined

\* buildEventTree: the names of the events of the type
typeEvents(type) ==
    {fullScenario[k].name :
        k \in {j \in 1..Len(fullScenario) : fullScenario[j].type = type}}

\* buildEventTree: the event goes under its parent's node when it has a
\* parent among the events of its type, and is a root otherwise
isRootEvent(event) ==
    ~(/\ triggerParent(event.name) # Undefined
      /\ triggerParent(event.name)[1] \in typeEvents(event.type))

\* the events of the nodes reached from the nodes of `names` through
\* their children, `steps` levels down
RECURSIVE nodesBelow(_, _)
nodesBelow(names, steps) ==
    IF steps = 0 THEN names
    ELSE nodesBelow(
             names \cup
             {fullScenario[k].name :
                 k \in {j \in 1..Len(fullScenario) :
                           /\ ~isRootEvent(fullScenario[j])
                           /\ triggerParent(fullScenario[j].name)[1] \in names}},
             steps - 1)

\* the events renderEventNode is called on: the roots of the income tree
\* and of the expense tree, and the nodes below them
renderedEvents ==
    nodesBelow({fullScenario[k].name :
                   k \in {j \in 1..Len(fullScenario) :
                             isRootEvent(fullScenario[j])}},
               Len(fullScenario))

\* renderEventNode: the checkbox of the event is disabled
parentDisabled(name) ==
    /\ triggerParent(name) # Undefined
    /\ triggerParent(name)[1] \notin enabledEventNames

\* a checkbox the toolbar shows and lets change is changed to the opposite
\* of its state
Toggle ==
    /\ pc = "analysed"
    /\ \E name \in renderedEvents :
          /\ ~parentDisabled(name)
          /\ handleEventToggle(name, name \notin enabledEventNames)

-----------------------------------------------------------------------------
(* Inputs of the toggle model: scenarios of up to MaxEvents + 1 events with *)
(* triggers of either type, chains and cycles of triggers among them,       *)
(* simulated over four months across the turn of the year.                  *)

ToggleBodies ==
    { <<[type |-> "income", amount |-> 2000,
         recurrence |-> Recurrence("monthly", AnalysisStart, NoDate)], <<>>>>,
      <<[type |-> "expense", amount |-> 10000,
         recurrence |-> Recurrence("once", ld(BaseYear, 12, 15), NoDate)], <<>>>>,
      <<[type |-> "expense", amount |-> 150,
         recurrence |-> Recurrence("monthly", AnalysisStart, NoDate)],
        <<eventHappened(Names[1])>>>>,
      <<[type |-> "expense", amount |-> 600,
         recurrence |-> Recurrence("monthly", AnalysisStart, NoDate)],
        <<eventHappened(Names[2])>>>>,
      <<[type |-> "income", amount |-> 300,
         recurrence |-> Recurrence("monthly", AnalysisStart, NoDate)],
        <<eventHappened(Names[3])>>>>,
      <<[type |-> "expense", amount |-> 500,
         recurrence |-> Recurrence("monthly", AnalysisStart, NoDate)],
        <<eventHappened(Names[1]), eventHappened(Names[2])>>>> }

InitToggle ==
    \E n \in 0..(MaxEvents + 1) :
        \E f \in [1..n -> ToggleBodies] :
            runScenario(scenarioOf(f), AnalysisStart, AnalysisEnd, 0)

NextToggle == ProcessMonth \/ Return \/ Analyze \/ Toggle

SpecToggle == InitToggle /\ [][NextToggle]_vars

\* the names of the events of the analysis triggered by one of `names`
triggeredByAnyOf(names, given) ==
    { given.triggeredEvents[i].event.name :
        i \in {j \in 1..Len(given.triggeredEvents) :
                  given.triggeredEvents[j].triggerEvent \in names} }

\* the events triggered by the event, by an event triggered by it, and so
\* on, found in at most `steps` rounds
RECURSIVE triggeredWithin(_, _, _, _)
triggeredWithin(name, given, found, steps) ==
    IF steps = 0 THEN found
    ELSE triggeredWithin(name, given,
                         found \cup triggeredByAnyOf({name} \cup found, given),
                         steps - 1)

\* the events of the analysis transitively triggered by the event
transitivelyTriggeredBy(name, given) ==
    triggeredWithin(name, given, {}, Len(given.triggeredEvents))

\* C32: getDependentEvents(eventName, analysis) returns, also when the
\* triggeredEvents of the analysis form a cycle or an event names itself as
\* its trigger, and what it returns is exactly the set of the events
\* transitively triggered by eventName.
C32_GetDependentEventsReturnsTheClosure ==
    [][(Toggle /\ ~toggled'.enabled) =>
          /\ ~toggled'.threw
          /\ getDependentEvents(toggled'.eventName, analysis)
                = transitivelyTriggeredBy(toggled'.eventName, analysis)]_vars

\* C33: handleEventToggle(E, false) removes from the enabled set exactly E
\* and every event of the current analysis transitively trigger-dependent
\* on E, and handleEventToggle(E, true) adds exactly E: no other event's
\* enabled status changes, and dependents disabled by an earlier cascade
\* are not enabled again.
C33_ToggleChangesExactlyTheCascade ==
    [][Toggle =>
          enabledEventNames' =
              IF toggled'.enabled
              THEN enabledEventNames \cup {toggled'.eventName}
              ELSE enabledEventNames \
                       ({toggled'.eventName} \cup
                        transitivelyTriggeredBy(toggled'.eventName, analysis))]_vars

\* C34: in every state reached from the state with every event enabled
\* through the checkboxes the toolbar lets change, no enabled event gated by
\* event-happened(P) on an event P of the scenario has P disabled: a
\* dependent disabled by the cascade is not enabled again while its trigger
\* stays disabled.
C34_EnabledEventHasItsTriggerEnabled ==
    \A k \in 1..Len(fullScenario) :
        fullScenario[k].name \in enabledEventNames =>
            \A n \in 1..Len(fullScenario[k].unlockedBy) :
                (/\ fullScenario[k].unlockedBy[n].type = "event-happened"
                 /\ fullScenario[k].unlockedBy[n].eventName
                        \in eventNames(fullScenario))
                    => fullScenario[k].unlockedBy[n].eventName
                           \in enabledEventNames

-----------------------------------------------------------------------------
\* the number of places of a forest, at top level or in a children list at
\* any depth, that hold a node of the event named `name`
RECURSIVE placesOf(_, _)
placesOf(forest, name) ==
    IF forest = <<>> THEN 0
    ELSE (IF Head(forest).event.name = name THEN 1 ELSE 0)
         + placesOf(Head(forest).children, name)
         + placesOf(Tail(forest), name)

\* events.length plus the children of the top-level events, as the year
\* section counts the events of a year
eventCount(events) ==
    Len(events) + sumOf([i \in 1..Len(events) |-> Len(events[i].children)])

\* C35: in the forest of every year of the timeline each event node occurs
\* at most once: no node is both a top-level entry and a child of another
\* node, none is a child of two parents and none is listed twice at top
\* level; the event count of the year section counts each node once.
C35_EachNodeOccursOnce ==
    pc = "transformed" =>
    \A y \in 1..Len(timeline) :
        /\ \A k \in 1..Len(scenario) :
              placesOf(timeline[y].events, scenario[k].name) <= 1
        /\ eventCount(timeline[y].events)
              = Cardinality({node.event.name : node \in nodesOf(timeline[y].events)})

\* in 2026 the income A has its dependent B under it, and C, gated by
\* event-happened(B), stands at top level after A: three nodes, each once
C35_Witness ==
    /\ pc = "transformed"
    /\ Len(scenario) = 3
    /\ scenario[3].unlockedBy = <<eventHappened(Names[2])>>
    /\ Len(timeline) = 2
    /\ Len(timeline[2].events) = 2
    /\ timeline[2].events[1].event.name = Names[1]
    /\ Len(timeline[2].events[1].children) = 1
    /\ timeline[2].events[1].children[1].event.name = Names[2]
    /\ timeline[2].events[2].event.name = Names[3]
    /\ timeline[2].events[2].triggeredBy # Undefined
    /\ eventCount(timeline[2].events) = 3

-----------------------------------------------------------------------------
\* the event has an event-happened condition and a networth-is-above or
\* income-is-above condition as well
isTriggeredAndConditional(event) ==
    /\ \E n \in 1..Len(event.unlockedBy) :
          event.unlockedBy[n].type = "event-happened"
    /\ \E n \in 1..Len(event.unlockedBy) :
          event.unlockedBy[n].type \in {"networth-is-above", "income-is-above"}

\* C36: an event that has an event-happened condition together with
\* networth-is-above or income-is-above conditions is classified as
\* triggered only, never as conditional (nor as independent), and the
\* triggerEvent recorded for it is the name in the first event-happened
\* condition of its unlockedBy list.
C36_TriggeredWinsOverConditional ==
    pc = "analysed" =>
    \A k \in 1..Len(scenario) :
        isTriggeredAndConditional(scenario[k]) =>
            /\ timesListed(analysis.triggeredEvents, scenario[k]) = 1
            /\ timesListed(analysis.conditionalEvents, scenario[k]) = 0
            /\ \A i \in 1..Len(analysis.independentEvents) :
                  analysis.independentEvents[i] # scenario[k]
            /\ recordedTrigger(scenario[k]) = triggerNameOf(scenario[k])

\* B carries networth-is-above, then event-happened(B), then
\* event-happened(A): it is triggered by B; C carries income-is-above, then
\* event-happened(A): it is triggered by A; no event is conditional
C36_Witness ==
    /\ pc = "analysed"
    /\ Len(scenario) = 3
    /\ scenario[1].unlockedBy = <<>>
    /\ scenario[2].unlockedBy =
          <<networthIsAbove(Names[1], 2000), eventHappened(Names[2]),
            eventHappened(Names[1])>>
    /\ scenario[3].unlockedBy =
          <<incomeIsAbove(Names[1], 1000), eventHappened(Names[1])>>
    /\ Len(analysis.triggeredEvents) = 2
    /\ analysis.triggeredEvents[1].triggerEvent = Names[2]
    /\ analysis.triggeredEvents[2].triggerEvent = Names[1]
    /\ analysis.conditionalEvents = <<>>

-----------------------------------------------------------------------------
(* Month-keys as sort keys.  The analyzer is given a result whose cashflow  *)
(* holds the months of two dates, in either order, and sorts the keys: the  *)
(* years are those where the number of digits changes, and the ends of the  *)
(* range of four-digit years.                                               *)

KeyYears == {0, 9, 10, 99, 100, 999, 1000, BaseYear, 9999}

KeyDates == {ld(y, m, d) : y \in KeyYears, m \in 1..12, d \in {1, 28}}

\* the one event of the scenario analysed, fired in every month
everyMonth ==
    makeRecurring(Names[1], "income", 2000, "monthly", ld(0, 1, 1), NoDate, <<>>)

InitKeys ==
    \E a \in KeyDates, b \in KeyDates :
        /\ scenario = <<everyMonth>>
        /\ startDate = a
        /\ endDate = b
        /\ initialBalance = 0
        /\ portfolioAssets = NoPortfolio
        /\ growthRate = 0
        /\ dividendYield = 0
        /\ cursor = startOfMonthLD(b)
        /\ running = 0
        /\ happened = {Names[1]}
        /\ cashflow = put(put(<<>>, toKeyMonth(a),
                              [amount |-> 2000, events |-> <<everyMonth>>]),
                          toKeyMonth(b),
                          [amount |-> 2000, events |-> <<everyMonth>>])
        /\ balance = put(put(<<>>, toKeyMonth(a), 0), toKeyMonth(b), 0)
        /\ assetValues = initialAssetValues(NoPortfolio)
        /\ cashBalance = <<>>
        /\ assetBalance = <<>>
        /\ totalBalance = <<>>
        /\ firstCall
        /\ pc = "done"

NextKeys == Analyze

SpecKeys == InitKeys /\ [][NextKeys]_vars

\* days since year 0, every month counted as 31 days
dayIndex(d) == monthIndex(d) * 31 + (d.d - 1)

\* the month-keys of the entries of the event flow, in its order
flowKeys == [i \in 1..Len(analysis.eventFlow) |-> analysis.eventFlow[i].monthKey]

\* C37: for two dates with a year in 0..9999 and a month in 1..12,
\* toKeyMonth(a) is lexicographically less than toKeyMonth(b) iff (a.y, a.m)
\* precedes (b.y, b.m), and the keys are equal iff year and month are equal;
\* so the month-keys sorted as strings, as the analyzer sorts them, stand in
\* chronological order, and compareLD orders the dates as their day numbers
\* do, a total order that agrees with the order of the keys.
C37_MonthKeysSortChronologically ==
    LET a == startDate
        b == endDate
    IN  /\ strLess(toKeyMonth(a), toKeyMonth(b)) <=> monthIndex(a) < monthIndex(b)
        /\ toKeyMonth(a) = toKeyMonth(b) <=> (a.y = b.y /\ a.m = b.m)
        /\ compareLD(a, b) < 0 <=> dayIndex(a) < dayIndex(b)
        /\ compareLD(a, b) > 0 <=> dayIndex(a) > dayIndex(b)
        /\ compareLD(a, b) = 0 <=> a = b
        /\ compareLD(a, b) < 0 => ~strLess(toKeyMonth(b), toKeyMonth(a))
        /\ pc = "analysed" =>
              flowKeys = IF monthIndex(a) = monthIndex(b) THEN <<toKeyMonth(a)>>
                         ELSE IF monthIndex(a) < monthIndex(b)
                         THEN <<toKeyMonth(a), toKeyMonth(b)>>
                         ELSE <<toKeyMonth(b), toKeyMonth(a)>>

\* the result lists 1000-01 before 0999-12, and the event flow has 0999-12
\* first
C37_Witness ==
    /\ pc = "analysed"
    /\ startDate = ld(1000, 1, 28)
    /\ endDate = ld(999, 12, 1)
    /\ cashflow[1].key = <<49, 48, 48, 48, 45, 48, 49>>
    /\ cashflow[2].key = <<48, 57, 57, 57, 45, 49, 50>>
    /\ flowKeys = <<cashflow[2].key, cashflow[1].key>>

-----------------------------------------------------------------------------
\* the events have pairwise distinct names
namesAreUnique(events) ==
    \A i, j \in 1..Len(events) : i # j => events[i].name # events[j].name

\* C38: for a list of portfolio assets with pairwise distinct ids the
\* events generateDividendEvents returns have pairwise distinct names, so
\* merging them into a scenario with unique names keeps the names unique.
C38_DividendEventNamesAreUnique ==
    (/\ pc = "done"
     /\ tracking
     /\ \A i, j \in 1..Len(portfolioAssets) :
           i # j => portfolioAssets[i].id # portfolioAssets[j].id)
        => /\ namesAreUnique(generateDividendEvents(portfolioAssets, dividendYield,
                                                    startDate, NoDate))
           /\ namesAreUnique(scenario) => namesAreUnique(simulatedEvents)

-----------------------------------------------------------------------------
(* The page's portfolio fetch: fetch-portfolio-data.ts and the page that    *)
(* awaits it.  A promise settles as fulfilled with a value or as rejected.  *)

Position(id, name, category_id, total_value, currency) ==
    [id |-> id, name |-> name, category_id |-> category_id,
     total_value |-> total_value, currency |-> currency]

fulfilled(value) == [status |-> "fulfilled", value |-> value]

rejected == [status |-> "rejected", value |-> <<>>]

\* the for loop over the positions: the cash summed, the others listed
RECURSIVE splitPositions(_, _, _)
splitPositions(given, cashBalanceSoFar, assets) ==
    IF given = <<>>
    THEN [initialCashBalance |-> cashBalanceSoFar, portfolioAssets |-> assets]
    ELSE LET position == Head(given) IN
         IF position.category_id = "cash"
         THEN splitPositions(Tail(given), cashBalanceSoFar + position.total_value,
                             assets)
         ELSE splitPositions(Tail(given), cashBalanceSoFar,
                             Append(assets,
                                    PortfolioAsset(position.id, position.name,
                                                   position.category_id,
                                                   position.total_value,
                                                   position.currency)))

\* fetchPortfolioForScenario without its try and catch
fetchPortfolioForScenarioUncaught(settled) ==
    IF settled.status = "rejected" THEN rejected
    ELSE fulfilled(splitPositions(settled.value, 0, <<>>))

\* fetchPortfolioForScenario, given how fetchPositions settled
fetchPortfolioForScenario(settled) ==
    IF settled.status = "rejected"
    THEN fulfilled([initialCashBalance |-> 0, portfolioAssets |-> <<>>])
    ELSE fulfilled(splitPositions(settled.value, 0, <<>>))

\* the page awaits fetchPortfolioForScenario and renders the client, which
\* simulates its scenario on the cash balance and the assets it is given;
\* a rejection would leave the page without the client
Fetch ==
    /\ pc = "fetch"
    /\ LET data == fetchPortfolioForScenario(positions) IN
       IF data.status = "rejected"
       THEN /\ pc' = "error"
            /\ UNCHANGED <<initialBalance, portfolioAssets, running, assetValues>>
       ELSE /\ initialBalance' = data.value.initialCashBalance
            /\ portfolioAssets' = data.value.portfolioAssets
            /\ running' = data.value.initialCashBalance
            /\ assetValues' = initialAssetValues(data.value.portfolioAssets)
            /\ pc' = "loop"
    /\ UNCHANGED <<scenario, startDate, endDate, cursor, happened, balance,
                   cashflow, growthRate, dividendYield, cashBalance,
                   assetBalance, totalBalance, pending, analysis, previous,
                   runs, timeline, offset, fullScenario, enabledEventNames,
                   toggled, positions>>

\* the positions of the fetch model, two of them cash
PositionPool ==
    { Position(a.id, a.name, a.category_id, a.initialValue, a.currency) :
        a \in AssetPool }
    \cup { Position("a6", "Savings", "cash", 800, "USD") }

\* what fetchPositions settles as: rejected, or fulfilled with up to
\* MaxAssets + 1 positions, none twice
PositionsSettled ==
    { rejected } \cup
    UNION { { fulfilled(f) :
                f \in { g \in [1..n -> PositionPool] :
                          \A i, j \in 1..n : i # j => g[i].id # g[j].id } } :
            n \in 0..(MaxAssets + 1) }

InitFetch ==
    \E settled \in PositionsSettled, events \in {<<>>, salaryAndHolidays} :
        /\ entered(events, ld(BaseYear, 1, 1), ld(BaseYear, 3, 1), 0,
                   NoPortfolio, 12, 0)
        /\ pending = <<>>
        /\ analysis = NoAnalysis
        /\ previous = NoRun
        /\ runs = 1
        /\ timeline = NoTimeline
        /\ offset = 0
        /\ fullScenario = events
        /\ enabledEventNames = eventNames(events)
        /\ toggled = NoToggle
        /\ positions = settled
        /\ pc = "fetch"

NextFetch == Fetch \/ ProcessMonth \/ Return

SpecFetch == InitFetch /\ [][NextFetch]_vars

\* the positions fetched that are cash, and those that are not, in order
cashPositions == SelectSeq(positions.value, LAMBDA p : p.category_id = "cash")

nonCashPositions == SelectSeq(positions.value, LAMBDA p : p.category_id # "cash")

\* C39: fetchPortfolioForScenario never propagates a failure of
\* fetchPositions: on failure it returns initialCashBalance 0 and an empty
\* asset list; on success initialCashBalance is the sum of total_value over
\* the cash positions and portfolioAssets holds exactly the non-cash
\* positions, in order, none of them with category cash.
C39_FetchFallsBackAndSplitsCash ==
    pc # "fetch" =>
    /\ pc # "error"
    /\ positions.status = "rejected" =>
          initialBalance = 0 /\ portfolioAssets = <<>>
    /\ positions.status = "fulfilled" =>
          /\ initialBalance =
                sumOf([i \in 1..Len(cashPositions) |-> cashPositions[i].total_value])
          /\ Len(portfolioAssets) = Len(nonCashPositions)
          /\ \A i \in 1..Len(portfolioAssets) :
                /\ portfolioAssets[i].id = nonCashPositions[i].id
                /\ portfolioAssets[i].name = nonCashPositions[i].name
                /\ portfolioAssets[i].category_id = nonCashPositions[i].category_id
                /\ portfolioAssets[i].initialValue = nonCashPositions[i].total_value
                /\ portfolioAssets[i].currency = nonCashPositions[i].currency
                /\ portfolioAssets[i].category_id # "cash"

\* the fetch failed and the client simulated an empty portfolio from 0
C39_Witness ==
    /\ pc = "done"
    /\ positions.status = "rejected"
    /\ initialBalance = 0
    /\ portfolioAssets = <<>>
    /\ scenario = <<>>
    /\ Len(totalBalance) = 3
    /\ \A i \in 1..3 : totalBalance[i].value = 0

====
